---- MODULE Spec2Model ----
(***************************************************************************)
(* Model of the steganographic codecs of backend/stego (audio.py,          *)
(* video.py) and of the HTTP handlers of backend/app.py that call them.    *)
(*                                                                         *)
(* Bytes are integers 0..255, byte strings and bit strings are sequences   *)
(* (1-based here, 0-based in the source: index i of the source is i+1).    *)
(***************************************************************************)
EXTENDS Integers, Sequences, FiniteSets, TLC

\* ------------------------------------------------------------------------
\* Bounds of the model
\* ------------------------------------------------------------------------
\* longest audio payload, in bytes
MaxPayloadLen == 2

\* frames of the longest video
MaxFrames == 15

\* ------------------------------------------------------------------------
\* Bytes and bits
\* ------------------------------------------------------------------------
\* bit k (0 = least significant) of a byte
Bit(byte, k) == (byte \div (2 ^ k)) % 2

Xor1(a, b) == (a + b) % 2

\* a ^ b on bytes
Xor8(a, b) ==
    Xor1(Bit(a, 0), Bit(b, 0)) + 2 * Xor1(Bit(a, 1), Bit(b, 1))
    + 4 * Xor1(Bit(a, 2), Bit(b, 2)) + 8 * Xor1(Bit(a, 3), Bit(b, 3))
    + 16 * Xor1(Bit(a, 4), Bit(b, 4)) + 32 * Xor1(Bit(a, 5), Bit(b, 5))
    + 64 * Xor1(Bit(a, 6), Bit(b, 6)) + 128 * Xor1(Bit(a, 7), Bit(b, 7))

\* (byte & 0xFE) | bit
SetLsb(byte, bit) == (byte - (byte % 2)) + bit

\* n.to_bytes(4, "big"), n taken as an unsigned 32-bit value
ToBE4(n) ==
    << (n \div 16777216) % 256, (n \div 65536) % 256, (n \div 256) % 256, n % 256 >>

\* int.from_bytes(b[:4], "big")
FromBE4(b) == b[1] * 16777216 + b[2] * 65536 + b[3] * 256 + b[4]

\* n.to_bytes(4, "little")
ToLE4(n) ==
    << n % 256, (n \div 256) % 256, (n \div 65536) % 256, (n \div 16777216) % 256 >>

FromLE4(b, at) ==
    b[at + 1] + b[at + 2] * 256 + b[at + 3] * 65536 + b[at + 4] * 16777216

\* b[:n]
Take(b, n) == IF n >= Len(b) THEN b ELSE SubSeq(b, 1, n)

\* bit i (1-based) of a bit string, 0 beyond its end
BitAt(bits, i) == IF i <= Len(bits) THEN bits[i] ELSE 0

\* ecc.bytes_to_bits: len(b)*8 bits, most significant bit of byte 0 first
bytes_to_bits(b) ==
    [i \in 1..(8 * Len(b)) |-> Bit(b[((i - 1) \div 8) + 1], 7 - ((i - 1) % 8))]

\* ecc.bits_to_bytes: 8 bits per byte, MSB first; the bits missing from a
\* final partial byte are taken as 0 on the low end
bits_to_bytes(bits) ==
    [j \in 1..((Len(bits) + 7) \div 8) |->
        128 * BitAt(bits, 8 * (j - 1) + 1) + 64 * BitAt(bits, 8 * (j - 1) + 2)
        + 32 * BitAt(bits, 8 * (j - 1) + 3) + 16 * BitAt(bits, 8 * (j - 1) + 4)
        + 8 * BitAt(bits, 8 * (j - 1) + 5) + 4 * BitAt(bits, 8 * (j - 1) + 6)
        + 2 * BitAt(bits, 8 * (j - 1) + 7) + BitAt(bits, 8 * (j - 1) + 8)]

\* ------------------------------------------------------------------------
\* Hamming(7,4), systematic: d1 d2 d3 d4 p1 p2 p3
\* ------------------------------------------------------------------------
HammingParity(d1, d2, d3, d4, k) ==
    CASE k = 4 -> (d1 + d2 + d4) % 2
      [] k = 5 -> (d1 + d3 + d4) % 2
      [] OTHER -> (d2 + d3 + d4) % 2

\* ecc.hamming_encode: 4-bit blocks (the last one zero-padded) to 7-bit codewords
hamming_encode(bits) ==
    [i \in 1..(7 * ((Len(bits) + 3) \div 4)) |->
        LET c == (i - 1) \div 7
            k == (i - 1) % 7
        IN  IF k < 4 THEN BitAt(bits, 4 * c + k + 1)
            ELSE HammingParity(BitAt(bits, 4 * c + 1), BitAt(bits, 4 * c + 2),
                               BitAt(bits, 4 * c + 3), BitAt(bits, 4 * c + 4), k)]

\* position (0..6) of the bit a syndrome points at, 7 for the zero syndrome
SyndromePos(s1, s2, s3) ==
    CASE s1 = 1 /\ s2 = 1 /\ s3 = 0 -> 0
      [] s1 = 1 /\ s2 = 0 /\ s3 = 1 -> 1
      [] s1 = 0 /\ s2 = 1 /\ s3 = 1 -> 2
      [] s1 = 1 /\ s2 = 1 /\ s3 = 1 -> 3
      [] s1 = 1 /\ s2 = 0 /\ s3 = 0 -> 4
      [] s1 = 0 /\ s2 = 1 /\ s3 = 0 -> 5
      [] s1 = 0 /\ s2 = 0 /\ s3 = 1 -> 6
      [] OTHER -> 7

\* ecc.hamming_decode: per 7-bit codeword, the syndrome, the bit it points at
\* flipped, the 4 data bits kept
hamming_decode(bits) ==
    [i \in 1..(4 * (Len(bits) \div 7)) |->
        LET c == (i - 1) \div 4
            k == (i - 1) % 4
            w(j) == bits[7 * c + j]
            s1 == (w(1) + w(2) + w(4) + w(5)) % 2
            s2 == (w(1) + w(3) + w(4) + w(6)) % 2
            s3 == (w(2) + w(3) + w(4) + w(7)) % 2
        IN  IF SyndromePos(s1, s2, s3) = k THEN 1 - w(k + 1) ELSE w(k + 1)]

\* ------------------------------------------------------------------------
\* Stream cipher of the audio path (crypto.py)
\* ------------------------------------------------------------------------
RECURSIVE KeyFold(_, _)
KeyFold(password, acc) ==
    IF password = <<>> THEN acc
    ELSE KeyFold(Tail(password), (acc * 31 + Head(password)) % 256)

\* crypto.derive_key: deterministic, no caller-supplied salt
derive_key(password) == KeyFold(password, 7)

\* byte i (0-based) of the keystream of a key
KeyStream(key, i) == (key * 17 + 101 * i + 29) % 256

\* crypto.encrypt_ctr: ciphertext[i] = plaintext[i] XOR keystream[i]
encrypt_ctr(key, data) ==
    [i \in 1..Len(data) |-> Xor8(data[i], KeyStream(key, i - 1))]

\* crypto.decrypt_ctr: encrypt applied again
decrypt_ctr(key, data) == encrypt_ctr(key, data)

\* ------------------------------------------------------------------------
\* WAV container (wav.py)
\* ------------------------------------------------------------------------
RIFF == <<82, 73, 70, 70>>
WAVE == <<87, 65, 86, 69>>
FMT == <<102, 109, 116, 32>>
DATA == <<100, 97, 116, 97>>

\* scan of the RIFF sub-chunks from byte offset `at` for the data chunk
RECURSIVE FindData(_, _)
FindData(b, at) ==
    IF at + 8 > Len(b) THEN [ok |-> FALSE, offset |-> 0, size |-> 0]
    ELSE IF SubSeq(b, at + 1, at + 4) = DATA
         THEN [ok |-> TRUE, offset |-> at + 8, size |-> FromLE4(b, at + 4)]
         ELSE LET sz == FromLE4(b, at + 4)
              IN  FindData(b, at + 8 + sz + (sz % 2))

\* wav.parse_wav: (data_offset, data_size) of a RIFF/WAVE buffer, or failure
parse_wav(b) ==
    IF Len(b) < 12 \/ SubSeq(b, 1, 4) # RIFF \/ SubSeq(b, 9, 12) # WAVE
    THEN [ok |-> FALSE, offset |-> 0, size |-> 0]
    ELSE FindData(b, 12)

\* ------------------------------------------------------------------------
\* Inputs of the audio calls
\* ------------------------------------------------------------------------
\* byte values payloads are made of
PayloadBytes == {65, 200}

RECURSIVE SeqsUpTo(_, _)
SeqsUpTo(S, n) ==
    IF n = 0 THEN {<<>>}
    ELSE LET shorter == SeqsUpTo(S, n - 1)
         IN  shorter \cup {Append(q, x) : q \in shorter, x \in S}

Payloads == SeqsUpTo(PayloadBytes, MaxPayloadLen)

\* "", "a", "b"
Passwords == {<<>>, <<97>>, <<98>>}

\* byte i (0-based) of the data region of a carrier: 16-bit samples, low byte first
SampleByte(i) == ((i \div 2) * 37 + ((i \div 2) \div 3) + 128 * (i % 2) + 11) % 256

\* canonical 44-byte header of a 16-bit mono PCM file with data_size data bytes
WavHeader(size) ==
    RIFF \o ToLE4(36 + size) \o WAVE \o FMT \o ToLE4(16)
    \o <<1, 0, 1, 0, 68, 172, 0, 0, 136, 88, 1, 0, 2, 0, 16, 0>>
    \o DATA \o ToLE4(size)

\* bits embed_audio needs for an n-byte payload: what the carriers are sized around
NeededBits(n, ecc) == 8 * (9 + (IF ecc THEN (14 * n + 7) \div 8 ELSE n))

\* data sizes in bytes: an exact fit (2*T) and one sample short of it (2*T - 1),
\* for the empty payload and for the longest one, with and without ECC
DataSizes ==
    UNION {{2 * NeededBits(n, e) - 1, 2 * NeededBits(n, e)} :
              n \in {0, MaxPayloadLen}, e \in BOOLEAN}

CarrierIds ==
    {[kind |-> "wav", size |-> s] : s \in DataSizes}
    \cup {[kind |-> "noriff", size |-> 4], [kind |-> "nodata", size |-> 0]}

\* the bytes of a carrier file
Carrier(id) ==
    CASE id.kind = "wav" ->
            WavHeader(id.size) \o [i \in 1..id.size |-> SampleByte(i - 1)]
      [] id.kind = "noriff" ->
            <<88>> \o Tail(WavHeader(id.size)) \o [i \in 1..id.size |-> SampleByte(i - 1)]
      [] OTHER -> SubSeq(WavHeader(0), 1, 36)

\* ------------------------------------------------------------------------
\* audio.py
\* ------------------------------------------------------------------------
MAGIC == <<83, 84, 71, 49>>

ErrWav == "WAV format error"
ErrPassword == "Password required when encryption=True"
ErrCapacity == "Not enough capacity in carrier audio"
ErrTruncated == "Truncated payload"
ErrNoPayload == "No payload found"

NoResult == [status |-> "none", error |-> "", data |-> <<>>]
Failure(msg) == [status |-> "error", error |-> msg, data |-> <<>>]
Success(bytes) == [status |-> "ok", error |-> "", data |-> bytes]

\* variant: the password demanded whatever the encrypt flag
ensure_audio_raises_always(pw, enc) == pw = <<>>

\* _ensure_audio raises: encryption requested and no password
ensure_audio_raises(pw, enc) == enc /\ pw = <<>>

\* _ensure_audio returns: the derived key, or the dummy key b"" (modelled as 0)
ensure_audio(pw, enc) == IF enc THEN derive_key(pw) ELSE 0

\* embed_audio: the encrypted payload
Encrypted(data, pw, enc) ==
    IF enc THEN encrypt_ctr(ensure_audio(pw, enc), data) ELSE data

\* variant: the header stored as Hamming codewords when use_ecc is set
HeaderEncoded(encrypted, ecc) ==
    LET plain == MAGIC \o <<IF ecc THEN 1 ELSE 0>> \o ToBE4(Len(encrypted))
    IN  IF ecc THEN bits_to_bytes(hamming_encode(bytes_to_bits(plain))) ELSE plain

\* embed_audio: header = MAGIC + flags + len(encrypted).to_bytes(4, "big")
Header(encrypted, ecc) == MAGIC \o <<IF ecc THEN 1 ELSE 0>> \o ToBE4(Len(encrypted))

\* embed_audio: body = bits_to_bytes(hamming_encode(bits) if use_ecc else bits)
Body(encrypted, ecc) ==
    bits_to_bytes(IF ecc THEN hamming_encode(bytes_to_bits(encrypted))
                  ELSE bytes_to_bits(encrypted))

\* embed_audio: full = header + body
Full(data, pw, enc, ecc) ==
    Header(Encrypted(data, pw, enc), ecc) \o Body(Encrypted(data, pw, enc), ecc)

\* variant: the comparison off by one (>= for >)
CapacityExceededOffByOne(total_bits, size) == total_bits >= size \div 2

\* embed_audio: total_bits > samples
CapacityExceeded(total_bits, size) == total_bits > size \div 2

\* variant: the bits of a byte taken least significant first
PayloadBitLsbFirst(bytes, index) == Bit(bytes[(index \div 8) + 1], index % 8)

\* embed_audio: bit = (full[bit_index >> 3] >> (7 - (bit_index & 7))) & 1
PayloadBit(bytes, index) == Bit(bytes[(index \div 8) + 1], 7 - (index % 8))

\* variant: a stride of one byte
ByteOffsetStride1(offset, index) == offset + index

\* embed_audio: byte_offset = data_offset + bit_index * 2
ByteOffset(offset, index) == offset + index * 2

\* variant: the ECC expansion forgotten
BodyBitsPlain(enc_len, ecc) == enc_len * 8

\* extract_audio: body_bits from the decoded flag and length
BodyBits(enc_len, ecc) ==
    IF ecc THEN (enc_len * 8 * 7 + 3) \div 4 ELSE enc_len * 8

\* read_bits raises "Truncated payload": some absolute_bit >= total_samples
read_bits_raises(count, start_bit, total_samples) ==
    count > 0 /\ start_bit + count > total_samples

\* read_bits: the LSBs of samples start_bit .. start_bit + count - 1
read_bits(buf, offset, count, start_bit) ==
    [i \in 1..count |-> buf[offset + (start_bit + i - 1) * 2 + 1] % 2]

\* extract_audio lines 90-99: read the body, decode, cut to enc_len, decrypt
ExtractBody(buf, offset, enc_len, ecc, pw, enc) ==
    LET raw_bits == read_bits(buf, offset, BodyBits(enc_len, ecc), 72)
        dec_bits == IF ecc THEN hamming_decode(raw_bits) ELSE raw_bits
        enc_bytes == Take(bits_to_bytes(dec_bits), enc_len)
    IN  IF enc THEN decrypt_ctr(ensure_audio(pw, enc), enc_bytes) ELSE enc_bytes

\* variant: a body that is not all there is returned as an empty result
ExtractHeaderLenient(buf, offset, total_samples, pw, enc) ==
    IF read_bits_raises(8, 32, total_samples) \/ read_bits_raises(32, 40, total_samples)
    THEN Failure(ErrTruncated)
    ELSE LET flags == bits_to_bytes(read_bits(buf, offset, 8, 32))[1]
             enc_len == FromBE4(bits_to_bytes(read_bits(buf, offset, 32, 40)))
             ecc == (flags % 2) = 1
         IN  IF read_bits_raises(BodyBits(enc_len, ecc), 72, total_samples)
             THEN Success(<<>>)
             ELSE Success(ExtractBody(buf, offset, enc_len, ecc, pw, enc))

\* extract_audio lines 79-89: flags, length, the truncation check of the body
ExtractHeader(buf, offset, total_samples, pw, enc) ==
    IF read_bits_raises(8, 32, total_samples) \/ read_bits_raises(32, 40, total_samples)
    THEN Failure(ErrTruncated)
    ELSE LET flags == bits_to_bytes(read_bits(buf, offset, 8, 32))[1]
             enc_len == FromBE4(bits_to_bytes(read_bits(buf, offset, 32, 40)))
             ecc == (flags % 2) = 1
         IN  IF read_bits_raises(BodyBits(enc_len, ecc), 72, total_samples)
             THEN Failure(ErrTruncated)
             ELSE Success(ExtractBody(buf, offset, enc_len, ecc, pw, enc))

\* variant: only the first three magic bytes compared
MagicFound3(wav_bits) == Take(bits_to_bytes(wav_bits), 3) = Take(MAGIC, 3)

\* extract_audio line 76: bytes(bits_to_bytes(wav_bits))[:4] == MAGIC
MagicFound(wav_bits) == Take(bits_to_bytes(wav_bits), 4) = MAGIC

\* extract_audio: the whole call
extract_audio(buf, pw, enc) ==
    LET p == parse_wav(buf)
        total_samples == p.size \div 2
    IN  IF ~p.ok THEN Failure(ErrWav)
        ELSE IF ensure_audio_raises(pw, enc) THEN Failure(ErrPassword)
        ELSE IF read_bits_raises(32, 0, total_samples) THEN Failure(ErrTruncated)
        ELSE IF ~MagicFound(read_bits(buf, p.offset, 32, 0)) THEN Failure(ErrNoPayload)
        ELSE ExtractHeader(buf, p.offset, total_samples, pw, enc)

\* ------------------------------------------------------------------------
\* Python values used by video.py and app.py
\* ------------------------------------------------------------------------
\* None, as a value no byte string or character string equals
None == << -1 >>

\* not x, for x None or a string
Falsy(x) == x = None \/ x = <<>>

\* x or y
OrElse(x, y) == IF Falsy(x) THEN y ELSE x

RECURSIVE Concat(_)
Concat(ss) == IF ss = <<>> THEN <<>> ELSE Head(ss) \o Concat(Tail(ss))

\* ------------------------------------------------------------------------
\* base64 (standard alphabet)
\* ------------------------------------------------------------------------
B64Char(v) ==
    CASE v < 26 -> 65 + v
      [] v < 52 -> 97 + (v - 26)
      [] v < 62 -> 48 + (v - 52)
      [] v = 62 -> 43
      [] OTHER -> 47

\* the 6-bit value of a character of the alphabet, -1 for any other character
B64Value(c) ==
    CASE c >= 65 /\ c <= 90 -> c - 65
      [] c >= 97 /\ c <= 122 -> c - 97 + 26
      [] c >= 48 /\ c <= 57 -> c - 48 + 52
      [] c = 43 -> 62
      [] c = 47 -> 63
      [] OTHER -> -1

\* base64.b64encode: 3 bytes to 4 characters, the last group padded with "="
RECURSIVE b64encode(_)
b64encode(b) ==
    IF b = <<>> THEN <<>>
    ELSE IF Len(b) = 1
         THEN << B64Char(b[1] \div 4), B64Char((b[1] % 4) * 16), 61, 61 >>
    ELSE IF Len(b) = 2
         THEN << B64Char(b[1] \div 4), B64Char((b[1] % 4) * 16 + (b[2] \div 16)),
                 B64Char((b[2] % 16) * 4), 61 >>
    ELSE << B64Char(b[1] \div 4), B64Char((b[1] % 4) * 16 + (b[2] \div 16)),
            B64Char((b[2] % 16) * 4 + (b[3] \div 64)), B64Char(b[3] % 64) >>
         \o b64encode(SubSeq(b, 4, Len(b)))

\* base64.b64decode(s) with validate=False, as binascii.a2b_base64 does it:
\* characters outside the alphabet are skipped, a completed pad sequence ends the
\* input, and data left in an incomplete group is an error.
\* quad: position in the current group, left: the bits not yet emitted (as a
\* value below 2^(2*quad)), pads: pad characters seen in the current group
RECURSIVE B64Scan(_, _, _, _, _, _)
B64Scan(s, i, quad, left, pads, out) ==
    IF i > Len(s)
    THEN IF quad = 0 THEN [ok |-> TRUE, data |-> out] ELSE [ok |-> FALSE, data |-> <<>>]
    ELSE IF s[i] = 61
         THEN IF quad >= 2 /\ quad + pads + 1 >= 4
              THEN [ok |-> TRUE, data |-> out]
              ELSE B64Scan(s, i + 1, quad, left, pads + 1, out)
    ELSE IF B64Value(s[i]) < 0
         THEN B64Scan(s, i + 1, quad, left, pads, out)
    ELSE LET v == B64Value(s[i])
         IN  CASE quad = 0 -> B64Scan(s, i + 1, 1, v, 0, out)
               [] quad = 1 ->
                    B64Scan(s, i + 1, 2, v % 16, 0, Append(out, left * 4 + (v \div 16)))
               [] quad = 2 ->
                    B64Scan(s, i + 1, 3, v % 4, 0, Append(out, left * 16 + (v \div 4)))
               [] OTHER -> B64Scan(s, i + 1, 0, 0, 0, Append(out, left * 64 + v))

b64decode(s) == B64Scan(s, 1, 0, 0, 0, <<>>)

\* ------------------------------------------------------------------------
\* json, for objects whose keys and values are strings
\* ------------------------------------------------------------------------
\* one character of a string as json.dumps writes it (ensure_ascii); the model's
\* strings hold printable ASCII only
JsonEscape(c) ==
    IF c = 34 \/ c = 92 THEN << 92, c >> ELSE << c >>

RECURSIVE JsonEscapeAll(_)
JsonEscapeAll(str) ==
    IF str = <<>> THEN <<>> ELSE JsonEscape(Head(str)) \o JsonEscapeAll(Tail(str))

JsonString(str) == << 34 >> \o JsonEscapeAll(str) \o << 34 >>

\* "key": "value" members joined by ", "
RECURSIVE JsonMembers(_)
JsonMembers(obj) ==
    IF obj = <<>> THEN <<>>
    ELSE JsonString(obj[1][1]) \o << 58, 32 >> \o JsonString(obj[1][2])
         \o (IF Len(obj) > 1 THEN << 44, 32 >> ELSE <<>>) \o JsonMembers(Tail(obj))

\* json.dumps(obj) of a dict given as the sequence of its << key, value >> pairs
json_dumps(obj) == << 123 >> \o JsonMembers(obj) \o << 125 >>

JsonWs == {32, 9, 10, 13}

\* the characters a JSON value can start with: { [ " - digits t f n N I
JsonValueStart == {123, 91, 34, 45, 116, 102, 110, 78, 73} \cup 48..57

RECURSIVE SkipWs(_, _)
SkipWs(s, i) == IF i <= Len(s) /\ s[i] \in JsonWs THEN SkipWs(s, i + 1) ELSE i

JsonInvalid == [kind |-> "invalid", obj |-> <<>>]

\* text that may be JSON but is outside what this parser reads
JsonOther == [kind |-> "other", obj |-> <<>>]

\* the characters of a string literal from position i (after the opening quote)
RECURSIVE JsonChars(_, _, _)
JsonChars(s, i, acc) ==
    IF i > Len(s) THEN [kind |-> "invalid", val |-> <<>>, next |-> i]
    ELSE IF s[i] = 34 THEN [kind |-> "ok", val |-> acc, next |-> i + 1]
    ELSE IF s[i] < 32 THEN [kind |-> "invalid", val |-> <<>>, next |-> i]
    ELSE IF s[i] # 92 THEN JsonChars(s, i + 1, Append(acc, s[i]))
    ELSE IF i + 1 > Len(s) THEN [kind |-> "invalid", val |-> <<>>, next |-> i]
    ELSE CASE s[i + 1] \in {34, 92, 47} ->
                 JsonChars(s, i + 2, Append(acc, s[i + 1]))
           [] s[i + 1] = 110 -> JsonChars(s, i + 2, Append(acc, 10))
           [] s[i + 1] = 116 -> JsonChars(s, i + 2, Append(acc, 9))
           [] s[i + 1] = 114 -> JsonChars(s, i + 2, Append(acc, 13))
           [] s[i + 1] = 98 -> JsonChars(s, i + 2, Append(acc, 8))
           [] s[i + 1] = 102 -> JsonChars(s, i + 2, Append(acc, 12))
           [] s[i + 1] = 117 -> [kind |-> "other", val |-> <<>>, next |-> i]
           [] OTHER -> [kind |-> "invalid", val |-> <<>>, next |-> i]

\* after the closing brace: anything but white space is "Extra data"
JsonEnd(s, i, obj) ==
    IF SkipWs(s, i) > Len(s) THEN [kind |-> "dict", obj |-> obj] ELSE JsonInvalid

\* the members of an object from position i (a key is expected there)
RECURSIVE JsonObject(_, _, _)
JsonObject(s, i, obj) ==
    IF i > Len(s) \/ s[i] # 34 THEN JsonInvalid
    ELSE LET key == JsonChars(s, i + 1, <<>>)
             colon == SkipWs(s, key.next)
             at == SkipWs(s, colon + 1)
         IN  IF key.kind # "ok" THEN [kind |-> key.kind, obj |-> <<>>]
             ELSE IF colon > Len(s) \/ s[colon] # 58 \/ at > Len(s) THEN JsonInvalid
             ELSE IF s[at] # 34
                  THEN IF s[at] \in JsonValueStart THEN JsonOther ELSE JsonInvalid
             ELSE LET val == JsonChars(s, at + 1, <<>>)
                      sep == SkipWs(s, val.next)
                      more == Append(obj, << key.val, val.val >>)
                  IN  IF val.kind # "ok" THEN [kind |-> val.kind, obj |-> <<>>]
                      ELSE IF sep > Len(s) THEN JsonInvalid
                      ELSE IF s[sep] = 125 THEN JsonEnd(s, sep + 1, more)
                      ELSE IF s[sep] = 44 THEN JsonObject(s, SkipWs(s, sep + 1), more)
                      ELSE JsonInvalid

\* json.loads(raw.decode("utf-8")): "dict" with the pairs read, "invalid" when
\* the text is no JSON, "other" when deciding needs more of JSON than objects of
\* strings (another kind of value, a \u escape, a byte above 127)
json_loads(raw) ==
    LET i == SkipWs(raw, 1)
    IN  IF \E k \in 1..Len(raw) : raw[k] > 127 THEN JsonOther
        ELSE IF i > Len(raw) THEN JsonInvalid
        ELSE IF raw[i] # 123
             THEN IF raw[i] \in JsonValueStart THEN JsonOther ELSE JsonInvalid
        ELSE IF SkipWs(raw, i + 1) <= Len(raw) /\ raw[SkipWs(raw, i + 1)] = 125
             THEN JsonEnd(raw, SkipWs(raw, i + 1) + 1, <<>>)
        ELSE JsonObject(raw, SkipWs(raw, i + 1), <<>>)

\* obj.get(key): the value of the last pair with that key, None without one
RECURSIVE DictGet(_, _)
DictGet(obj, key) ==
    IF obj = <<>> THEN None
    ELSE IF obj[Len(obj)][1] = key THEN obj[Len(obj)][2]
    ELSE DictGet(SubSeq(obj, 1, Len(obj) - 1), key)

\* ------------------------------------------------------------------------
\* video.py: constants and pure parts
\* ------------------------------------------------------------------------
\* _MAGIC = b"VST2"
VMAGIC == <<86, 83, 84, 50>>

\* _HEADER_SIZE: 4 bytes magic + 4 bytes payload length
HEADER_SIZE == 8

\* MAX_VIDEO_BYTES = 64 * 1024 * 1024
MAX_VIDEO_BYTES == 67108864

KeyType == <<116, 121, 112, 101>>
KeyFilename == <<102, 105, 108, 101, 110, 97, 109, 101>>
KeyData == <<100, 97, 116, 97>>
StrText == <<116, 101, 120, 116>>
StrFile == <<102, 105, 108, 101>>
StrSecretBin == <<115, 101, 99, 114, 101, 116, 46, 98, 105, 110>>
StrMp4 == <<109, 112, 52>>

VErrPassword == "Password is required for video steganography"
VErrNoSecret == "Either secret_message or secret_file must be provided"
VErrTooLarge == "Video too large for this server plan"
VErrScale == "Failed to downscale video"
VErrOpen == "Unable to read downscaled video"
VErrDims == "Invalid video dimensions"
VErrReopen == "Unable to re-open downscaled video"
VErrCapacity == "Payload too large for this video"
VErrWriter == "Unable to create intermediate output video"
VErrFrames == "Unexpected error: ran out of frames before embedding completed"
XErrOpen == "Unable to read stego video"
XErrDims == "Invalid stego video dimensions"
XErrMagic == "No embedded payload found in video (magic mismatch)"
XErrLength == "Invalid embedded payload length"
XErrInternal == "Internal error: header not parsed"
XErrHeader == "No embedded payload found in video (incomplete header)"
XErrEnded == "Stego video ended before payload was fully read"
XErrDecode == "Incorrect password or corrupted payload"
XErrFormat == "Invalid embedded data format"
XErrFile == "Corrupted embedded file data"
XErrType == "Unknown embedded payload type"

\* _encrypt: data[i] ^ key[i % len(key)], key = password.encode()
xor_encrypt(data, pw) ==
    [i \in 1..Len(data) |-> Xor8(data[i], pw[((i - 1) % Len(pw)) + 1])]

\* _decrypt: XOR decrypt = encrypt
xor_decrypt(data, pw) == xor_encrypt(data, pw)

\* embed_video lines 55-56: the validation of the secret arguments fails
NoSecretGiven(msg, file) == Falsy(msg) /\ Falsy(file)

\* embed_video lines 108-118: payload_obj, as its << key, value >> pairs
PayloadObj(msg, file, fname) ==
    IF file # None
    THEN << << KeyType, StrFile >>,
            << KeyFilename, OrElse(fname, StrSecretBin) >>,
            << KeyData, b64encode(file) >> >>
    ELSE << << KeyType, StrText >>, << KeyData, msg >> >>

\* embed_video lines 120-122: raw, encrypted, b64_encrypted
\* variant: the serialized payload armored first, the armor encrypted
ArmoredBase64First(obj, pw) == xor_encrypt(b64encode(json_dumps(obj)), pw)

Armored(obj, pw) == b64encode(xor_encrypt(json_dumps(obj), pw))

\* embed_video lines 124-126: full_payload = header + b64_encrypted
FullPayload(obj, pw) ==
    VMAGIC \o ToBE4(Len(Armored(obj, pw))) \o Armored(obj, pw)

IsUpper(c) == c >= 65 /\ c <= 90
IsAlnumChar(c) == (c >= 48 /\ c <= 57) \/ (c >= 65 /\ c <= 90) \/ (c >= 97 /\ c <= 122)

\* embed_video lines 65-67: (container or "mp4").lower(), "mp4" unless isalnum()
SanitizeContainer(c) ==
    LET given == OrElse(c, StrMp4)
        lower == [i \in 1..Len(given) |-> IF IsUpper(given[i]) THEN given[i] + 32 ELSE given[i]]
    IN  IF lower # <<>> /\ \A i \in 1..Len(lower) : IsAlnumChar(lower[i])
        THEN lower ELSE StrMp4

\* embed_video: video_capacity_bits = frame_count * width * height * 3
\* variant: one bit per pixel, the three channels forgotten
VideoCapacityBitsPerPixel(count, w, h) == count * w * h

VideoCapacityBits(count, width, height) == count * width * height * 3

\* _get_next_bit: bit bit_index of full_payload, most significant bit first
\* the payload bits taken from the low end of each byte
NextBitLsbFirst(bytes, index) == Bit(bytes[(index \div 8) + 1], index % 8)

NextBit(bytes, index) == Bit(bytes[(index \div 8) + 1], 7 - (index % 8))

\* embed_video lines 185-192: the frame after the inner loop, the cursor at
\* `index` when the frame was read
\* variant: the sample is replaced by the bit, its upper bits not kept
EmbedInFrameWholeSample(flat, bytes, index) ==
    [i \in 1..Len(flat) |->
        IF index + i - 1 < Len(bytes) * 8
        THEN NextBit(bytes, index + i - 1)
        ELSE flat[i]]

EmbedInFrame(flat, bytes, index) ==
    [i \in 1..Len(flat) |->
        IF index + i - 1 < Len(bytes) * 8
        THEN SetLsb(flat[i], NextBit(bytes, index + i - 1))
        ELSE flat[i]]

\* the cursor after a frame of `size` samples
\* variant: the last bit of a frame is taken again for the next frame
CursorAfterRepeat(size, bytes, index) ==
    IF index + size < Len(bytes) * 8 THEN index + size - 1 ELSE Len(bytes) * 8

CursorAfter(size, bytes, index) ==
    IF index + size < Len(bytes) * 8 THEN index + size ELSE Len(bytes) * 8

\* _append_bit: the buffer after one more bit (bits_collected becomes + 1)
append_bit(buf, bits_collected, bit) ==
    LET idx == bits_collected \div 8
        grown == IF idx = Len(buf) THEN Append(buf, 0) ELSE buf
    IN  [grown EXCEPT ![idx + 1] = (2 * @ + (bit % 2)) % 256]

\* extract_video: the locals of the frame loop before the first frame
\* (payload_bits_expected -1 stands for None), with the number of samples looked at
ScanInit ==
    [header_bytes |-> <<>>, header_bits_collected |-> 0, payload_bytes |-> <<>>,
     payload_bits_expected |-> -1, payload_bits_collected |-> 0, done |-> FALSE,
     error |-> "", inspected |-> 0]

\* variant: a length of 0 is taken as it is
ParseHeaderAnyLength(st) ==
    IF SubSeq(st.header_bytes, 1, 4) # VMAGIC
    THEN [st EXCEPT !.error = XErrMagic]
    ELSE [st EXCEPT !.payload_bits_expected = FromBE4(SubSeq(st.header_bytes, 5, 8)) * 8]

\* variant: the magic is not compared
ParseHeaderAnyMagic(st) ==
    IF FromBE4(SubSeq(st.header_bytes, 5, 8)) <= 0
    THEN [st EXCEPT !.error = XErrLength]
    ELSE [st EXCEPT !.payload_bits_expected = FromBE4(SubSeq(st.header_bytes, 5, 8)) * 8]

\* extract_video lines 302-313: the header is complete, parse it
ParseHeader(st) ==
    IF Take(st.header_bytes, 4) # VMAGIC THEN [st EXCEPT !.error = XErrMagic]
    ELSE IF FromBE4(SubSeq(st.header_bytes, 5, 8)) <= 0
         THEN [st EXCEPT !.error = XErrLength]
    ELSE [st EXCEPT !.payload_bits_expected = FromBE4(SubSeq(st.header_bytes, 5, 8)) * 8]

\* extract_video lines 295-326: the body of the inner loop for one sample
ScanSample(st, val) ==
    LET seen == [st EXCEPT !.inspected = @ + 1]
    IN  IF st.header_bits_collected < HEADER_SIZE * 8
        THEN LET got == [seen EXCEPT
                            !.header_bytes =
                                append_bit(@, st.header_bits_collected, val % 2),
                            !.header_bits_collected = @ + 1]
             IN  IF got.header_bits_collected = HEADER_SIZE * 8
                 THEN ParseHeader(got) ELSE got
        ELSE IF st.payload_bits_expected = -1 THEN [seen EXCEPT !.error = XErrInternal]
        ELSE IF st.payload_bits_collected < st.payload_bits_expected
             THEN [seen EXCEPT
                      !.payload_bytes = append_bit(@, st.payload_bits_collected, val % 2),
                      !.payload_bits_collected = @ + 1,
                      !.done = (st.payload_bits_collected + 1 = st.payload_bits_expected)]
        ELSE seen

\* variant: the frame is read to its end after the last payload bit
RECURSIVE ScanFrameToEnd(_, _, _)
ScanFrameToEnd(st, flat, i) ==
    IF i > Len(flat) \/ st.error # "" THEN st
    ELSE ScanFrameToEnd(ScanSample(st, flat[i]), flat, i + 1)

\* extract_video lines 293-326: the inner loop over one frame, left at the
\* break or at the raise
RECURSIVE ScanFrame(_, _, _)
ScanFrame(st, flat, i) ==
    IF i > Len(flat) \/ st.done \/ st.error # "" THEN st
    ELSE ScanFrame(ScanSample(st, flat[i]), flat, i + 1)

VNoResult == [status |-> "none", error |-> "", ext |-> <<>>, audio |-> FALSE]
VFailure(msg) == [status |-> "error", error |-> msg, ext |-> <<>>, audio |-> FALSE]

XNoResult ==
    [status |-> "none", error |-> "", text |-> None, file |-> None, filename |-> None]
XFailure(msg) ==
    [status |-> "error", error |-> msg, text |-> None, file |-> None, filename |-> None]
\* an exception that is no VideoStegoError
XEscaped(msg) ==
    [status |-> "escaped", error |-> msg, text |-> None, file |-> None, filename |-> None]
XReturn(text, file, filename) ==
    [status |-> "ok", error |-> "", text |-> text, file |-> file, filename |-> filename]

\* extract_video lines 354-365: the result for a decoded dict
DecodeDict(obj) ==
    IF DictGet(obj, KeyType) = StrText THEN XReturn(DictGet(obj, KeyData), None, None)
    ELSE IF DictGet(obj, KeyType) = StrFile
         THEN IF DictGet(obj, KeyData) = None \/ ~b64decode(DictGet(obj, KeyData)).ok
              THEN XFailure(XErrFile)
              ELSE XReturn(None, b64decode(DictGet(obj, KeyData)).data,
                           OrElse(DictGet(obj, KeyFilename), StrSecretBin))
    ELSE XFailure(XErrType)

\* extract_video lines 341-365: what the collected payload decodes to; a set,
\* with more than one element where the text is outside the JSON this model reads
DecodeResults(bytes, pw) ==
    IF ~b64decode(bytes).ok THEN {XFailure(XErrDecode)}
    ELSE LET parsed == json_loads(xor_decrypt(b64decode(bytes).data, pw))
         IN  CASE parsed.kind = "dict" -> {DecodeDict(parsed.obj)}
               [] parsed.kind = "invalid" -> {XFailure(XErrFormat)}
               [] OTHER -> {XFailure(XErrFormat), XFailure(XErrType), XFailure(XErrFile),
                            XEscaped("AttributeError")}

\* ------------------------------------------------------------------------
\* State
\* ------------------------------------------------------------------------
VARIABLES
    a_pc,          \* position of the audio scenario
    carrier,       \* which carrier file the caller holds (CarrierIds)
    wav_bytes,     \* embed_audio: the caller's buffer
    payload,       \* embed_audio: payload argument
    password,      \* embed_audio: password argument
    encrypt,       \* embed_audio: encrypt argument
    use_ecc,       \* embed_audio: use_ecc argument
    data_offset,   \* embed_audio: from parse_wav
    data_size,     \* embed_audio: from parse_wav
    full,          \* embed_audio: header + body
    wav,           \* embed_audio: the bytearray copy, <<>> while there is none
    bit_index,     \* embed_audio: loop variable of the write loop
    e_result,      \* what embed_audio returned or raised
    flipped,       \* samples (0-based) whose LSB was flipped on the way to extract
    stego,         \* the carrier extract_audio is given
    x_call,        \* extract_audio: its password and encrypt arguments
    x_result,      \* what extract_audio returned or raised
    v_pc,            \* position of the video scenario
    video,           \* the uploaded video (Videos)
    v_password,      \* embed_video: password argument
    container_arg,   \* embed_video: container argument
    secret_message,  \* embed_video: secret_message argument
    secret_file,     \* embed_video: secret_file argument
    secret_filename, \* embed_video: secret_filename argument
    container,       \* embed_video: container after lines 65-67
    width,           \* embed_video: CAP_PROP_FRAME_WIDTH
    height,          \* embed_video: CAP_PROP_FRAME_HEIGHT
    frame_count,     \* embed_video: frame_count
    payload_obj,     \* embed_video: payload_obj
    full_payload,    \* embed_video: full_payload
    cap_pos,         \* frames read from the open capture
    v_bit_index,     \* embed_video: bit_index, the cursor of _get_next_bit
    written,         \* frames written to the intermediate video, in order
    ffmpeg_log,      \* the run_ffmpeg calls made, in order
    v_result,        \* what embed_video returned or raised
    x_file,          \* the stego file extract_video is given
    x_password,      \* extract_video: password argument
    scan,            \* extract_video: the locals of its frame loop
    x_pos,           \* extract_video: frames read
    vx_result,       \* what extract_video returned or raised
    h_result,        \* what an API handler answered
    refs             \* the frame buffers the names frame and flat refer to

audio_vars ==
    << a_pc, carrier, wav_bytes, payload, password, encrypt, use_ecc, data_offset,
       data_size, full, wav, bit_index, e_result, flipped, stego, x_call, x_result >>

audio_args == << carrier, payload, password, encrypt, use_ecc >>

audio_after == << flipped, stego, x_call, x_result >>

NoCall == [password |-> <<>>, encrypt |-> FALSE]

\* the chat of app.py: the module globals, and one session of chat_ws for
\* every websocket
VARIABLES
    chat_history,      \* chat_history
    chat_connections,  \* chat_connections
    accepted,          \* how many messages chat_ws has accepted so far
    session,           \* chat_ws, for every websocket: its position and locals
    dropped,           \* the websockets whose peer is gone, the session not yet told
    inbox,             \* what each websocket was sent, in order
    received           \* how many payloads receive_json has delivered so far

chat_vars ==
    << chat_history, chat_connections, accepted, session, dropped, inbox, received >>

\* no chat is going on
ChatOff ==
    /\ chat_history = <<>>
    /\ chat_connections = {}
    /\ accepted = 0
    /\ session = <<>>
    /\ dropped = {}
    /\ inbox = <<>>
    /\ received = 0

AudioInit ==
    /\ a_pc = "e_parse"
    /\ carrier \in CarrierIds
    /\ wav_bytes = Carrier(carrier)
    /\ payload \in Payloads
    /\ password \in Passwords
    /\ encrypt \in BOOLEAN
    /\ use_ecc \in BOOLEAN
    /\ data_offset = 0
    /\ data_size = 0
    /\ full = <<>>
    /\ wav = <<>>
    /\ bit_index = 0
    /\ e_result = NoResult
    /\ flipped = {}
    /\ stego = <<>>
    /\ x_call = NoCall
    /\ x_result = NoResult

\* ------------------------------------------------------------------------
\* Inputs of the video calls
\* ------------------------------------------------------------------------
\* "", "a", "aa", "b"
VPasswords == {<<>>, <<97>>, <<97, 97>>, <<98>>}

\* None, "", "h", and a quote followed by a backslash
Messages == {None, <<>>, <<104>>, <<34, 92>>}

\* None, b"", b"\xff\x00"
Files == {None, <<>>, <<255, 0>>}

\* None, "", "f"
Filenames == {None, <<>>, <<102>>}

\* "", "MKV", "m.v"
Containers == {<<>>, <<77, 75, 86>>, <<109, 46, 118>>}

\* the videos: len is the size of the file in bytes, frames the number of frames
\* the decoder delivers, reported what CAP_PROP_FRAME_COUNT says. 8 frames of
\* 4 x 4 pixels hold 384 bits, what a one-character text needs.
Videos ==
    {[len |-> 1024, width |-> 4, height |-> 4, frames |-> MaxFrames, reported |-> MaxFrames],
     [len |-> 1024, width |-> 4, height |-> 4, frames |-> 8, reported |-> 8],
     [len |-> 1024, width |-> 4, height |-> 4, frames |-> 8, reported |-> 0],
     [len |-> 1024, width |-> 4, height |-> 4, frames |-> 7, reported |-> 8],
     [len |-> 1024, width |-> 0, height |-> 4, frames |-> 1, reported |-> 1],
     [len |-> MAX_VIDEO_BYTES + 1, width |-> 4, height |-> 4, frames |-> 1, reported |-> 1]}

\* sample i (0-based, row-major, channels interleaved) of frame f (0-based)
FrameSample(f, i) == (f * 53 + i * 29 + (i \div 5) + 7) % 256

\* frame.reshape(-1) of frame f of a video
SourceFrame(v, f) == [i \in 1..(v.width * v.height * 3) |-> FrameSample(f, i - 1)]

\* an upload of a request: absent, or a file with its bytes and its name
NoUpload == [present |-> FALSE, data |-> <<>>, filename |-> <<>>]
Uploads ==
    {NoUpload}
    \cup {[present |-> TRUE, data |-> d, filename |-> <<102>>] : d \in {<<>>, <<104>>, <<255, 0>>}}

video_vars ==
    << v_pc, video, v_password, container_arg, secret_message, secret_file,
       secret_filename, container, width, height, frame_count, payload_obj,
       full_payload, cap_pos, v_bit_index, written, ffmpeg_log, v_result, x_file,
       x_password, scan, x_pos, vx_result, h_result, refs >>

video_args ==
    << video, v_password, container_arg, secret_message, secret_file, secret_filename >>

video_locals ==
    << container, width, height, frame_count, payload_obj, full_payload, cap_pos,
       v_bit_index, written, ffmpeg_log >>

video_after == << x_file, x_password, scan, x_pos, vx_result >>

HNoResult == [kind |-> "none", status |-> 0, error |-> ""]

\* the names frame and flat of a frame loop, each with the number (from 1) of
\* the decoded frame whose buffer it refers to, 0 while it is unbound or None;
\* at_read is the number of decoded frames alive right after the last
\* successful cap.read()
NoRefs == [frame |-> 0, flat |-> 0, at_read |-> 0]

\* ok, frame = cap.read() delivers decoded frame n in a new array; the array
\* flat refers to, if any, is still alive
ReadFrame(r, n) == [r EXCEPT !.frame = n, !.at_read = Cardinality({n, r.flat} \ {0})]

\* ok, frame = cap.read() at the end of the stream: frame is None
ReadNone(r) == [r EXCEPT !.frame = 0]

\* flat = frame.reshape(-1): a view of the array of frame, which keeps that
\* array alive as long as flat refers to the view
Reshape(r) == [r EXCEPT !.flat = r.frame]

\* del frame: the name is unbound
DelFrame(r) == [r EXCEPT !.frame = 0]
NoFile == [len |-> 0, opens |-> FALSE, kept |-> 0, flip |-> -1, wiped |-> FALSE]

\* the locals and results before any call
VideoFresh ==
    /\ container = <<>>
    /\ width = 0
    /\ height = 0
    /\ frame_count = 0
    /\ payload_obj = <<>>
    /\ full_payload = <<>>
    /\ cap_pos = 0
    /\ v_bit_index = 0
    /\ written = <<>>
    /\ ffmpeg_log = <<>>
    /\ v_result = VNoResult
    /\ x_file = NoFile
    /\ x_password = <<>>
    /\ scan = ScanInit
    /\ x_pos = 0
    /\ vx_result = XNoResult
    /\ h_result = HNoResult
    /\ refs = NoRefs

\* the default arguments: no video scenario chooses its own
VideoNoArgs ==
    /\ video = [len |-> 0, width |-> 0, height |-> 0, frames |-> 0, reported |-> 0]
    /\ v_password = <<>>
    /\ container_arg = <<>>
    /\ secret_message = None
    /\ secret_file = None
    /\ secret_filename = None

\* a direct call of embed_video with any arguments, or a request to the API
VideoInit ==
    /\ VideoFresh
    /\ \/ /\ v_pc = "call"
          /\ video \in Videos
          /\ v_password \in VPasswords
          /\ container_arg \in Containers
          /\ secret_message \in Messages
          /\ secret_file \in Files
          /\ secret_filename \in Filenames
       \/ /\ v_pc = "request"
          /\ VideoNoArgs

VideoOff == v_pc = "off" /\ VideoFresh /\ VideoNoArgs

AudioOff ==
    /\ a_pc = "off"
    /\ carrier = [kind |-> "nodata", size |-> 0]
    /\ wav_bytes = <<>>
    /\ payload = <<>>
    /\ password = <<>>
    /\ encrypt = FALSE
    /\ use_ecc = FALSE
    /\ data_offset = 0
    /\ data_size = 0
    /\ full = <<>>
    /\ wav = <<>>
    /\ bit_index = 0
    /\ e_result = NoResult
    /\ flipped = {}
    /\ stego = <<>>
    /\ x_call = NoCall
    /\ x_result = NoResult

\* ------------------------------------------------------------------------
\* embed_audio, step by step
\* ------------------------------------------------------------------------
\* lines 22-25: parse_wav, WavFormatError re-raised as AudioProcessingError
EmbedParse ==
    /\ a_pc = "e_parse"
    /\ LET p == parse_wav(wav_bytes)
       IN  IF p.ok
           THEN /\ data_offset' = p.offset
                /\ data_size' = p.size
                /\ a_pc' = "e_build"
                /\ e_result' = e_result
           ELSE /\ e_result' = Failure(ErrWav)
                /\ a_pc' = "e_raised"
                /\ UNCHANGED << data_offset, data_size >>
    /\ UNCHANGED << wav_bytes, full, wav, bit_index >>
    /\ UNCHANGED audio_args
    /\ UNCHANGED video_vars
    /\ UNCHANGED chat_vars
    /\ UNCHANGED audio_after

\* lines 27-39: key, encryption, header and body
EmbedBuild ==
    /\ a_pc = "e_build"
    /\ IF ensure_audio_raises(password, encrypt)
       THEN /\ e_result' = Failure(ErrPassword)
            /\ a_pc' = "e_raised"
            /\ full' = full
       ELSE /\ full' = Full(payload, password, encrypt, use_ecc)
            /\ a_pc' = "e_check"
            /\ e_result' = e_result
    /\ UNCHANGED << wav_bytes, data_offset, data_size, wav, bit_index >>
    /\ UNCHANGED audio_args
    /\ UNCHANGED video_vars
    /\ UNCHANGED chat_vars
    /\ UNCHANGED audio_after

\* lines 41-44: the capacity check
EmbedCheck ==
    /\ a_pc = "e_check"
    /\ IF CapacityExceeded(Len(full) * 8, data_size)
       THEN /\ e_result' = Failure(ErrCapacity)
            /\ a_pc' = "e_raised"
       ELSE /\ a_pc' = "e_copy"
            /\ e_result' = e_result
    /\ UNCHANGED << wav_bytes, data_offset, data_size, full, wav, bit_index >>
    /\ UNCHANGED audio_args
    /\ UNCHANGED video_vars
    /\ UNCHANGED chat_vars
    /\ UNCHANGED audio_after

\* line 46: wav = bytearray(wav_bytes)
EmbedCopy ==
    /\ a_pc = "e_copy"
    /\ wav' = wav_bytes
    /\ bit_index' = 0
    /\ a_pc' = "e_write"
    /\ UNCHANGED << wav_bytes, data_offset, data_size, full, e_result >>
    /\ UNCHANGED audio_args
    /\ UNCHANGED video_vars
    /\ UNCHANGED chat_vars
    /\ UNCHANGED audio_after

\* wav[byte_offset] = (wav[byte_offset] & 0xFE) | bit
WriteBit(buf, offset, bytes, index) ==
    [buf EXCEPT ![ByteOffset(offset, index) + 1] = SetLsb(@, PayloadBit(bytes, index))]

\* variant: the write loop run on the caller's buffer (no copy boundary)
WriteBuffersInPlace(caller, copy, offset, bytes, index) ==
    << WriteBit(caller, offset, bytes, index), WriteBit(copy, offset, bytes, index) >>

\* the two buffers after one iteration: << the caller's wav_bytes, the copy wav >>;
\* the assignment of line 51 goes to the copy
WriteBuffers(caller, copy, offset, bytes, index) ==
    << caller, WriteBit(copy, offset, bytes, index) >>

\* lines 47-51: one iteration of the write loop
EmbedWriteBit ==
    /\ a_pc = "e_write"
    /\ bit_index < Len(full) * 8
    /\ wav_bytes' = WriteBuffers(wav_bytes, wav, data_offset, full, bit_index)[1]
    /\ wav' = WriteBuffers(wav_bytes, wav, data_offset, full, bit_index)[2]
    /\ bit_index' = bit_index + 1
    /\ UNCHANGED << a_pc, data_offset, data_size, full, e_result >>
    /\ UNCHANGED audio_args
    /\ UNCHANGED video_vars
    /\ UNCHANGED chat_vars
    /\ UNCHANGED audio_after

\* line 53: return bytes(wav)
EmbedReturn ==
    /\ a_pc = "e_write"
    /\ bit_index >= Len(full) * 8
    /\ e_result' = Success(wav)
    /\ wav' = <<>>
    /\ a_pc' = "e_returned"
    /\ UNCHANGED << wav_bytes, data_offset, data_size, full, bit_index >>
    /\ UNCHANGED audio_args
    /\ UNCHANGED video_vars
    /\ UNCHANGED chat_vars
    /\ UNCHANGED audio_after

\* ------------------------------------------------------------------------
\* The carrier on its way to extract_audio
\* ------------------------------------------------------------------------
\* number of Hamming codewords in the body of the embedded frame
Codewords == IF use_ecc THEN 2 * Len(Encrypted(payload, password, encrypt)) ELSE 0

\* what may happen to the carrier: nothing, one flipped magic bit (the first or
\* the last bit of a magic byte), the ECC flag or the lowest length bit
\* flipped, one flipped bit in the first or in the last body codeword, one
\* flipped bit in every body codeword
FlipSets ==
    {{}} \cup {{8 * b + k} : b \in 0..3, k \in {0, 7}}
    \cup {{39}, {71}}
    \cup {{72 + 7 * c + k} : c \in {0, Codewords - 1} \cap 0..(Codewords - 1), k \in 0..6}
    \cup {{72 + 7 * c + ((k + 3 * c) % 7) : c \in 0..(Codewords - 1)} : k \in 0..6}

FlipLsbs(buf, offset, f) ==
    [i \in 1..Len(buf) |->
        IF i > offset /\ (i - 1 - offset) % 2 = 0 /\ ((i - 1 - offset) \div 2) \in f
        THEN SetLsb(buf[i], 1 - (buf[i] % 2)) ELSE buf[i]]

\* the carrier may also lose its end: the samples kept, 0 for all of them
Cuts == {0, 31, 71}

\* the file cut to its first k samples, the data chunk size set accordingly
CutSamples(buf, offset, k) ==
    IF k = 0 THEN buf ELSE WavHeader(2 * k) \o SubSeq(buf, offset + 1, offset + 2 * k)

Transmit ==
    /\ a_pc = "e_returned"
    /\ \E f \in FlipSets, k \in Cuts :
          /\ f = {} \/ k = 0
          /\ flipped' = f
          /\ stego' = CutSamples(FlipLsbs(e_result.data, data_offset, f), data_offset, k)
    /\ a_pc' = "sent"
    /\ UNCHANGED << wav_bytes, data_offset, data_size, full, wav, bit_index, e_result,
                    x_call, x_result >>
    /\ UNCHANGED audio_args
    /\ UNCHANGED video_vars
    /\ UNCHANGED chat_vars

\* ------------------------------------------------------------------------
\* extract_audio, one call
\* ------------------------------------------------------------------------
ExtractAudio ==
    /\ a_pc = "sent"
    /\ \E pw \in Passwords, enc \in BOOLEAN :
          /\ x_call' = [password |-> pw, encrypt |-> enc]
          /\ x_result' = extract_audio(stego, pw, enc)
    /\ a_pc' = "x_done"
    /\ UNCHANGED << wav_bytes, data_offset, data_size, full, wav, bit_index, e_result,
                    flipped, stego >>
    /\ UNCHANGED audio_args
    /\ UNCHANGED video_vars
    /\ UNCHANGED chat_vars

AudioNext ==
    \/ EmbedParse
    \/ EmbedBuild
    \/ EmbedCheck
    \/ EmbedCopy
    \/ EmbedWriteBit
    \/ EmbedReturn
    \/ Transmit
    \/ ExtractAudio


\* ------------------------------------------------------------------------
\* embed_video, step by step
\* ------------------------------------------------------------------------
\* embed_video raises: nothing is returned and the temporary directory is removed
VRaise(msg) ==
    /\ v_result' = VFailure(msg)
    /\ v_pc' = "raised"
    /\ written' = <<>>

\* lines 53-67: password, secret and size checks, the container name
VEmbedValidate ==
    /\ v_pc = "call"
    /\ IF v_password = <<>> THEN VRaise(VErrPassword) /\ container' = container
       ELSE IF NoSecretGiven(secret_message, secret_file)
            THEN VRaise(VErrNoSecret) /\ container' = container
       ELSE IF video.len > MAX_VIDEO_BYTES
            THEN VRaise(VErrTooLarge) /\ container' = container
       ELSE /\ container' = SanitizeContainer(container_arg)
            /\ v_pc' = "scale"
            /\ UNCHANGED << v_result, written >>
    /\ UNCHANGED << width, height, frame_count, payload_obj, full_payload, cap_pos,
                    v_bit_index, ffmpeg_log, h_result >>
    /\ UNCHANGED video_args
    /\ UNCHANGED video_after
    /\ UNCHANGED refs
    /\ UNCHANGED audio_vars
    /\ UNCHANGED chat_vars

\* lines 76-91: the transcoder scales the input, or fails
VEmbedScale ==
    /\ v_pc = "scale"
    /\ ffmpeg_log' = Append(ffmpeg_log, "scale")
    /\ \E ok \in BOOLEAN :
          IF ok THEN v_pc' = "open" /\ UNCHANGED << v_result, written >>
          ELSE VRaise(VErrScale)
    /\ UNCHANGED << container, width, height, frame_count, payload_obj, full_payload,
                    cap_pos, v_bit_index, h_result >>
    /\ UNCHANGED video_args
    /\ UNCHANGED video_after
    /\ UNCHANGED refs
    /\ UNCHANGED audio_vars
    /\ UNCHANGED chat_vars

\* lines 94-105: the capture is opened, its properties read
VEmbedOpen ==
    /\ v_pc = "open"
    /\ \E opened \in BOOLEAN :
          IF ~opened THEN VRaise(VErrOpen) /\ UNCHANGED << width, height, frame_count >>
          ELSE /\ width' = video.width
               /\ height' = video.height
               /\ frame_count' = video.reported
               /\ IF video.width <= 0 \/ video.height <= 0 THEN VRaise(VErrDims)
                  ELSE v_pc' = "build" /\ UNCHANGED << v_result, written >>
    /\ cap_pos' = 0
    /\ UNCHANGED << container, payload_obj, full_payload, v_bit_index, ffmpeg_log,
                    h_result >>
    /\ UNCHANGED video_args
    /\ UNCHANGED video_after
    /\ UNCHANGED refs
    /\ UNCHANGED audio_vars
    /\ UNCHANGED chat_vars

\* lines 108-133: the payload object, the framed payload
VEmbedBuild ==
    /\ v_pc = "build"
    /\ payload_obj' = PayloadObj(secret_message, secret_file, secret_filename)
    /\ full_payload' =
          FullPayload(PayloadObj(secret_message, secret_file, secret_filename), v_password)
    /\ IF frame_count <= 0
       THEN frame_count' = 0 /\ v_pc' = "count"
       ELSE frame_count' = frame_count /\ v_pc' = "capacity"
    /\ UNCHANGED << container, width, height, cap_pos, v_bit_index, written,
                    ffmpeg_log, v_result, h_result >>
    /\ UNCHANGED video_args
    /\ UNCHANGED video_after
    /\ UNCHANGED refs
    /\ UNCHANGED audio_vars
    /\ UNCHANGED chat_vars

\* lines 134-139: one frame of the counting pass
VEmbedCountFrame ==
    /\ v_pc = "count"
    /\ cap_pos < video.frames
    /\ cap_pos' = cap_pos + 1
    /\ frame_count' = frame_count + 1
    /\ UNCHANGED << v_pc, container, width, height, payload_obj, full_payload,
                    v_bit_index, written, ffmpeg_log, v_result, h_result >>
    /\ UNCHANGED video_args
    /\ UNCHANGED video_after
    /\ refs' = DelFrame(ReadFrame(refs, cap_pos + 1))
    /\ UNCHANGED audio_vars
    /\ UNCHANGED chat_vars

\* lines 136-143: the counting pass ends, the capture is opened again
VEmbedReopen ==
    /\ v_pc = "count"
    /\ cap_pos >= video.frames
    /\ cap_pos' = 0
    /\ \E opened \in BOOLEAN :
          IF opened THEN v_pc' = "capacity" /\ UNCHANGED << v_result, written >>
          ELSE VRaise(VErrReopen)
    /\ UNCHANGED << container, width, height, frame_count, payload_obj, full_payload,
                    v_bit_index, ffmpeg_log, h_result >>
    /\ UNCHANGED video_args
    /\ UNCHANGED video_after
    /\ refs' = ReadNone(refs)
    /\ UNCHANGED audio_vars
    /\ UNCHANGED chat_vars

\* lines 145-155: the capacity check
VEmbedCapacity ==
    /\ v_pc = "capacity"
    /\ IF Len(full_payload) * 8 > VideoCapacityBits(frame_count, width, height)
       THEN VRaise(VErrCapacity)
       ELSE v_pc' = "writer" /\ UNCHANGED << v_result, written >>
    /\ UNCHANGED << container, width, height, frame_count, payload_obj, full_payload,
                    cap_pos, v_bit_index, ffmpeg_log, h_result >>
    /\ UNCHANGED video_args
    /\ UNCHANGED video_after
    /\ UNCHANGED refs
    /\ UNCHANGED audio_vars
    /\ UNCHANGED chat_vars

\* lines 158-167: the writer is opened, the cursor set to 0
VEmbedWriter ==
    /\ v_pc = "writer"
    /\ v_bit_index' = 0
    /\ \E opened \in BOOLEAN :
          IF opened THEN v_pc' = "frames" /\ UNCHANGED << v_result, written >>
          ELSE VRaise(VErrWriter)
    /\ UNCHANGED << container, width, height, frame_count, payload_obj, full_payload,
                    cap_pos, ffmpeg_log, h_result >>
    /\ UNCHANGED video_args
    /\ UNCHANGED video_after
    /\ UNCHANGED refs
    /\ UNCHANGED audio_vars
    /\ UNCHANGED chat_vars

\* lines 180-195: one frame read, embedded into while bits remain, written
VEmbedFrame ==
    /\ v_pc = "frames"
    /\ cap_pos < video.frames
    /\ cap_pos' = cap_pos + 1
    /\ written' =
          Append(written,
                 IF v_bit_index < Len(full_payload) * 8
                 THEN EmbedInFrame(SourceFrame(video, cap_pos), full_payload, v_bit_index)
                 ELSE SourceFrame(video, cap_pos))
    /\ v_bit_index' = CursorAfter(width * height * 3, full_payload, v_bit_index)
    /\ UNCHANGED << v_pc, container, width, height, frame_count, payload_obj,
                    full_payload, ffmpeg_log, v_result, h_result >>
    /\ UNCHANGED video_args
    /\ UNCHANGED video_after
    /\ refs' = DelFrame(IF v_bit_index < Len(full_payload) * 8
                          THEN Reshape(ReadFrame(refs, cap_pos + 1))
                          ELSE ReadFrame(refs, cap_pos + 1))
    /\ UNCHANGED audio_vars
    /\ UNCHANGED chat_vars

\* lines 181-203: no frame is left; bits that were not embedded are an error
VEmbedEnd ==
    /\ v_pc = "frames"
    /\ cap_pos >= video.frames
    /\ IF v_bit_index < Len(full_payload) * 8
       THEN VRaise(VErrFrames)
       ELSE v_pc' = "remux" /\ UNCHANGED << v_result, written >>
    /\ UNCHANGED << container, width, height, frame_count, payload_obj, full_payload,
                    cap_pos, v_bit_index, ffmpeg_log, h_result >>
    /\ UNCHANGED video_args
    /\ UNCHANGED video_after
    /\ refs' = ReadNone(refs)
    /\ UNCHANGED audio_vars
    /\ UNCHANGED chat_vars

\* variant: a failed remux ends the call with an error
RemuxOutcomeFatal(ok, c) ==
    IF ok THEN [status |-> "ok", error |-> "", ext |-> c, audio |-> TRUE]
    ELSE VFailure(VErrScale)

\* lines 208-236: what embed_video returns after the remux step: the remuxed
\* file under the container name, or the video without audio as "mp4"
RemuxOutcome(ok, c) ==
    [status |-> "ok", error |-> "", ext |-> IF ok THEN c ELSE StrMp4, audio |-> ok]

\* lines 206-236: the transcoder adds the original audio, or fails and the
\* video without audio is returned
VEmbedRemux ==
    /\ v_pc = "remux"
    /\ ffmpeg_log' = Append(ffmpeg_log, "remux")
    /\ \E ok \in BOOLEAN :
          /\ container' = IF ok THEN container ELSE StrMp4
          /\ v_result' = RemuxOutcome(ok, container)
    /\ v_pc' = "returned"
    /\ UNCHANGED << width, height, frame_count, payload_obj, full_payload, cap_pos,
                    v_bit_index, written, h_result >>
    /\ UNCHANGED video_args
    /\ UNCHANGED video_after
    /\ UNCHANGED refs
    /\ UNCHANGED audio_vars
    /\ UNCHANGED chat_vars

\* ------------------------------------------------------------------------
\* extract_video on the video embed_video returned, step by step
\* ------------------------------------------------------------------------
\* what the stego file may be: the returned video, with all its frames or cut
\* after its first kept frames, with the LSB of one sample flipped (flip counts
\* the samples from the first of the first frame, -1 for none: the first magic
\* bit, the lowest length bit) or with the LSBs of the 32 samples of the length
\* field cleared (wiped), within the size limit or not, readable or not
StegoFiles ==
    {[len |-> 2048, opens |-> TRUE, kept |-> k, flip |-> -1, wiped |-> FALSE] :
        k \in {1, 2, MaxFrames}}
    \cup {[len |-> 2048, opens |-> TRUE, kept |-> MaxFrames, flip |-> k, wiped |-> FALSE] :
             k \in {0, 63}}
    \cup {[len |-> 2048, opens |-> TRUE, kept |-> MaxFrames, flip |-> -1, wiped |-> TRUE],
          [len |-> MAX_VIDEO_BYTES + 1, opens |-> TRUE, kept |-> MaxFrames, flip |-> -1,
           wiped |-> FALSE],
          [len |-> 2048, opens |-> FALSE, kept |-> MaxFrames, flip |-> -1, wiped |-> FALSE]}

\* frame f (0-based) of the stego file, flattened
StegoFrame(f) ==
    LET flat == written[f + 1]
        at == x_file.flip - f * Len(flat)
    IN  IF x_file.flip >= 0 /\ at >= 0 /\ at < Len(flat)
        THEN [flat EXCEPT ![at + 1] = SetLsb(@, 1 - (@ % 2))]
        ELSE IF x_file.wiped
        THEN [i \in 1..Len(flat) |->
                IF f * Len(flat) + i - 1 >= 32 /\ f * Len(flat) + i - 1 < HEADER_SIZE * 8
                THEN SetLsb(flat[i], 0) ELSE flat[i]]
        ELSE flat

\* the frames the capture of extract_video delivers
StegoFrames == IF x_file.kept < Len(written) THEN x_file.kept ELSE Len(written)

\* lines 246-286: password and size checks, the capture opened
VExtractCall ==
    /\ v_pc = "returned"
    /\ \E pw \in VPasswords, f \in StegoFiles :
          /\ x_password' = pw
          /\ x_file' = f
          /\ IF pw = <<>>
             THEN vx_result' = XFailure(VErrPassword) /\ v_pc' = "x_done"
             ELSE IF f.len > MAX_VIDEO_BYTES
                  THEN vx_result' = XFailure(VErrTooLarge) /\ v_pc' = "x_done"
             ELSE IF ~f.opens
                  THEN vx_result' = XFailure(XErrOpen) /\ v_pc' = "x_done"
             ELSE IF width <= 0 \/ height <= 0
                  THEN vx_result' = XFailure(XErrDims) /\ v_pc' = "x_done"
             ELSE vx_result' = vx_result /\ v_pc' = "x_frames"
    /\ scan' = ScanInit
    /\ x_pos' = 0
    /\ UNCHANGED << v_result, h_result >>
    /\ UNCHANGED video_args
    /\ UNCHANGED video_locals
    /\ refs' = NoRefs
    /\ UNCHANGED audio_vars
    /\ UNCHANGED chat_vars

\* lines 288-331: one frame read and scanned
VExtractFrame ==
    /\ v_pc = "x_frames"
    /\ x_pos < StegoFrames
    /\ x_pos' = x_pos + 1
    /\ LET st == ScanFrame(scan, StegoFrame(x_pos), 1)
       IN  /\ scan' = st
           /\ IF st.error # ""
              THEN vx_result' = XFailure(st.error) /\ v_pc' = "x_done"
              ELSE /\ vx_result' = vx_result
                   /\ v_pc' = IF st.done THEN "x_decode" ELSE "x_frames"
    /\ UNCHANGED << v_result, h_result, x_file, x_password >>
    /\ UNCHANGED video_args
    /\ UNCHANGED video_locals
    /\ refs' = IF ScanFrame(scan, StegoFrame(x_pos), 1).error # ""
                THEN Reshape(ReadFrame(refs, x_pos + 1))
                ELSE DelFrame(Reshape(ReadFrame(refs, x_pos + 1)))
    /\ UNCHANGED audio_vars
    /\ UNCHANGED chat_vars

\* lines 289-291: no frame is left
VExtractEnd ==
    /\ v_pc = "x_frames"
    /\ x_pos >= StegoFrames
    /\ v_pc' = "x_decode"
    /\ UNCHANGED << v_result, h_result, x_file, x_password, scan, x_pos, vx_result >>
    /\ UNCHANGED video_args
    /\ UNCHANGED video_locals
    /\ refs' = ReadNone(refs)
    /\ UNCHANGED audio_vars
    /\ UNCHANGED chat_vars

\* variant: what was collected is decoded, complete or not
FinishResultsPartial(st, pw) ==
    IF st.header_bits_collected < HEADER_SIZE * 8
    THEN {XFailure(XErrHeader)}
    ELSE DecodeResults(st.payload_bytes, pw)

\* lines 335-365: what extract_video may return or raise after its frame loop
FinishResults(st, pw) ==
    IF st.header_bits_collected < HEADER_SIZE * 8
    THEN {XFailure(XErrHeader)}
    ELSE IF st.payload_bits_expected = -1
            \/ st.payload_bits_collected < st.payload_bits_expected
         THEN {XFailure(XErrEnded)}
    ELSE DecodeResults(st.payload_bytes, pw)

\* lines 333-365: the completeness checks, then the payload decoded
VExtractDecode ==
    /\ v_pc = "x_decode"
    /\ vx_result' \in FinishResults(scan, x_password)
    /\ v_pc' = "x_done"
    /\ UNCHANGED << v_result, h_result, x_file, x_password, scan, x_pos >>
    /\ UNCHANGED video_args
    /\ UNCHANGED video_locals
    /\ UNCHANGED refs
    /\ UNCHANGED audio_vars
    /\ UNCHANGED chat_vars

\* ------------------------------------------------------------------------
\* app.py: the video handlers
\* ------------------------------------------------------------------------
\* the parameters embed_video declares (video.py lines 43-51)
embed_video_params ==
    {"video_bytes", "password", "container", "secret_message", "secret_file",
     "secret_filename"}

\* the parameters extract_video declares (video.py lines 242-244)
extract_video_params == {"video_bytes", "password"}

\* the arguments video_embed passes (app.py lines 199-207)
video_embed_call ==
    {"video_bytes", "password", "container", "encrypt", "secret_message", "secret_file",
     "secret_filename"}

\* the arguments video_extract passes (app.py lines 230-234)
video_extract_call == {"video_bytes", "password", "encrypt"}

\* a call binds when every argument it names is a parameter; Python raises
\* TypeError otherwise, before the body of the function runs
CallBinds(arguments, params) == arguments \subseteq params

\* _resolve_secret_payload raises HTTPException(400)
ResolveRejects(message_upload, secret_upload) ==
    IF secret_upload.present THEN secret_upload.data = <<>>
    ELSE IF message_upload.present THEN message_upload.data = <<>>
    ELSE TRUE

\* what a handler answers once the secret is resolved: the call is made (its
\* outcome is the callee's) or TypeError escapes the handler, which catches
\* VideoStegoError only
HandlerCall(arguments, params) ==
    IF CallBinds(arguments, params)
    THEN [kind |-> "called", status |-> 0, error |-> ""]
    ELSE [kind |-> "escaped", status |-> 500, error |-> "TypeError"]

\* app.py lines 185-218: POST /api/video/embed
ApiVideoEmbed ==
    /\ v_pc = "request"
    /\ \E message_upload \in Uploads, secret_upload \in Uploads :
          h_result' =
              IF ResolveRejects(message_upload, secret_upload)
              THEN [kind |-> "http", status |-> 400, error |-> "HTTPException"]
              ELSE HandlerCall(video_embed_call, embed_video_params)
    /\ v_pc' = "responded"
    /\ UNCHANGED v_result
    /\ UNCHANGED video_args
    /\ UNCHANGED video_locals
    /\ UNCHANGED video_after
    /\ UNCHANGED refs
    /\ UNCHANGED audio_vars
    /\ UNCHANGED chat_vars

\* app.py lines 221-240: POST /api/video/extract
ApiVideoExtract ==
    /\ v_pc = "request"
    /\ h_result' = HandlerCall(video_extract_call, extract_video_params)
    /\ v_pc' = "responded"
    /\ UNCHANGED v_result
    /\ UNCHANGED video_args
    /\ UNCHANGED video_locals
    /\ UNCHANGED video_after
    /\ UNCHANGED refs
    /\ UNCHANGED audio_vars
    /\ UNCHANGED chat_vars

VideoNext ==
    \/ VEmbedValidate
    \/ VEmbedScale
    \/ VEmbedOpen
    \/ VEmbedBuild
    \/ VEmbedCountFrame
    \/ VEmbedReopen
    \/ VEmbedCapacity
    \/ VEmbedWriter
    \/ VEmbedFrame
    \/ VEmbedEnd
    \/ VEmbedRemux
    \/ VExtractCall
    \/ VExtractFrame
    \/ VExtractEnd
    \/ VExtractDecode
    \/ ApiVideoEmbed
    \/ ApiVideoExtract

\* ------------------------------------------------------------------------
\* The chat of app.py: chat_ws and _broadcast_chat
\* ------------------------------------------------------------------------
CHAT_HISTORY_LIMIT == 50

\* the websockets of a behaviour
Clients == {1, 2, 3}

\* bound: the payloads receive_json delivers in a behaviour, to all sessions
MaxPayloads == 2

\* a JSON value that is not a string and not null: a number other than 0
JsonNumber == << -2 >>

\* isinstance(v, str)
IsStr(v) == v # None /\ v # JsonNumber

IsSpace(c) == c \in {9, 10, 11, 12, 13, 32}

RECURSIVE LStrip(_)
LStrip(str) == IF str # <<>> /\ IsSpace(Head(str)) THEN LStrip(Tail(str)) ELSE str

RECURSIVE RStrip(_)
RStrip(str) ==
    IF str # <<>> /\ IsSpace(str[Len(str)]) THEN RStrip(SubSeq(str, 1, Len(str) - 1)) ELSE str

\* str.strip()
Strip(str) == RStrip(LStrip(str))

StrAnonymous == <<97, 110, 111, 110, 121, 109, 111, 117, 115>>

\* what receive_json may deliver: a JSON value that is no object; {}; objects
\* with a ciphertext of blanks, a ciphertext that is a number, no cover, a
\* cover of blanks; and an object with ciphertext "x" and cover " c", no sender
NoPayload == [is_dict |-> FALSE, ciphertext |-> None, sender |-> None, cover |-> None]
ChatPayloads ==
    {NoPayload,
     [is_dict |-> TRUE, ciphertext |-> None, sender |-> None, cover |-> None],
     [is_dict |-> TRUE, ciphertext |-> <<32>>, sender |-> <<115>>, cover |-> <<99>>],
     [is_dict |-> TRUE, ciphertext |-> JsonNumber, sender |-> None, cover |-> <<99>>],
     [is_dict |-> TRUE, ciphertext |-> <<120>>, sender |-> None, cover |-> None],
     [is_dict |-> TRUE, ciphertext |-> <<120>>, sender |-> None, cover |-> <<32, 32>>],
     [is_dict |-> TRUE, ciphertext |-> <<120>>, sender |-> None, cover |-> <<32, 99>>]}

\* chat_ws lines 102-115: the message of the error reply, "" for a payload
\* that is accepted
PayloadError(p) ==
    IF ~p.is_dict THEN "Invalid payload"
    ELSE IF ~IsStr(p.ciphertext) \/ Strip(p.ciphertext) = <<>>
         THEN "Missing ciphertext"
    ELSE IF ~IsStr(OrElse(p.cover, <<>>)) \/ Strip(OrElse(p.cover, <<>>)) = <<>>
         THEN "Missing cover message"
    ELSE ""

\* chat_ws lines 103, 111, 114: the error reply
ErrorReply(msg) == [type |-> "error", message |-> msg]

\* chat_ws lines 117-124: the message of the n-th accepted payload; id stands
\* for its uuid, sent_at is left out
ChatMessage(p, n) ==
    [type |-> "chat", id |-> n, ciphertext |-> p.ciphertext,
     sender |-> OrElse(p.sender, StrAnonymous), cover |-> Strip(OrElse(p.cover, <<>>))]

\* chat_ws lines 126-128: append, then del chat_history[:-CHAT_HISTORY_LIMIT]
\* variant: the oldest entries are kept, not the newest
AppendAndTrimOldest(history, message) ==
    IF Len(history) + 1 > CHAT_HISTORY_LIMIT
    THEN SubSeq(Append(history, message), 1, CHAT_HISTORY_LIMIT)
    ELSE Append(history, message)

AppendAndTrim(history, message) ==
    IF Len(history) + 1 > CHAT_HISTORY_LIMIT
    THEN SubSeq(Append(history, message), Len(history) + 2 - CHAT_HISTORY_LIMIT,
                Len(history) + 1)
    ELSE Append(history, message)

\* a session of chat_ws with no local bound: pc "new" before line 90,
\* "replay" suspended in the send of line 95, "receive" suspended in line 101,
\* "broadcast" suspended in the send of line 43, "closed" after line 132,
\* "crashed" after line 135
NoEntry == [type |-> "none"]
SessionAt(pc) ==
    [pc |-> pc, index |-> 0,
     message |-> NoEntry, target |-> 0, used |-> 0, stale |-> {}]

\* the message a history starts with in a state where n messages were
\* accepted before
OldMessage(n) ==
    [type |-> "chat", id |-> n, ciphertext |-> <<120>>, sender |-> StrAnonymous,
     cover |-> <<99>>]

\* the server after start-up: nobody connected yet, the history empty
ChatInitFresh ==
    /\ chat_history = <<>>
    /\ accepted = 0
    /\ chat_connections = {}
    /\ session = [c \in Clients |-> SessionAt("new")]
    /\ inbox = [c \in Clients |-> <<>>]

\* the server later: h messages accepted, websockets 2 and 3 connected and
\* waiting for a payload (inbox counts from here on), websocket 1 connected
\* last and in its replay, suspended in the send of entry h - 1, the entries
\* before it sent
ChatInitBusy(h) ==
    /\ chat_history = [i \in 1..h |-> OldMessage(i)]
    /\ accepted = h
    /\ chat_connections = Clients
    /\ session = [c \in Clients |->
                    IF c = 1
                    THEN [SessionAt("replay") EXCEPT !.index = h - 1]
                    ELSE SessionAt("receive")]
    /\ inbox = [c \in Clients |->
                  IF c = 1 THEN [i \in 1..(h - 1) |-> OldMessage(i)] ELSE <<>>]

ChatInit ==
    /\ \/ ChatInitFresh
       \/ \E h \in {CHAT_HISTORY_LIMIT - 1, CHAT_HISTORY_LIMIT} : ChatInitBusy(h)
    /\ dropped = {}
    /\ received = 0

\* ws.send_json on websocket ws succeeds: its session is running and its peer
\* is there
SendSucceeds(ws) ==
    session[ws].pc \in {"replay", "receive", "broadcast"} /\ ws \notin dropped

\* the inboxes after send_json(item) was called on websocket ws: an item is
\* counted as sent when the call is made, so that the items of a websocket
\* are in the order of the calls
Deliver(box, ws, item, ok) == IF ok THEN [box EXCEPT ![ws] = Append(@, item)] ELSE box

\* chat_ws line 93: the list iterator of the replay is asked for the next
\* entry: the one at its index in chat_history as it is now, if there is one
ReplayNext(s, history) ==
    IF s.index < Len(history)
    THEN [s EXCEPT !.pc = "replay", !.index = @ + 1]
    ELSE [s EXCEPT !.pc = "receive", !.index = 0]

\* chat_ws lines 89-95: the websocket is accepted and registered; the replay
\* starts and is suspended in the send of the first entry, if there is one
ChatConnect(c) ==
    /\ session[c].pc = "new"
    /\ chat_connections' = chat_connections \cup {c}
    /\ session' = [session EXCEPT ![c] = ReplayNext(@, chat_history)]
    /\ inbox' = IF chat_history = <<>> THEN inbox
                ELSE Deliver(inbox, c, chat_history[1], c \notin dropped)
    /\ UNCHANGED << chat_history, accepted, dropped, received >>
    /\ UNCHANGED audio_vars
    /\ UNCHANGED video_vars

\* chat_ws lines 93-97: the send of a replayed entry is over (a failure is
\* passed over); the next entry is sent, or the replay is over and the
\* session waits for a payload
ChatReplay(c) ==
    /\ session[c].pc = "replay"
    /\ session' = [session EXCEPT ![c] = ReplayNext(@, chat_history)]
    /\ inbox' = IF session[c].index < Len(chat_history)
                THEN Deliver(inbox, c, chat_history[session[c].index + 1], SendSucceeds(c))
                ELSE inbox
    /\ UNCHANGED << chat_history, chat_connections, accepted, dropped, received >>
    /\ UNCHANGED audio_vars
    /\ UNCHANGED video_vars

\* the websockets of a set that its iterator has still to deliver, the last
\* one delivered being `last` (0 for none): the table of the set is taken to
\* hold the websockets in the order of their numbers
Behind(conns, last) == {ws \in conns : ws > last}

\* the first websocket of a non-empty set in the order of the table
First(conns) == CHOOSE ws \in conns : \A other \in conns : ws <= other

\* _broadcast_chat lines 40-45: the set iterator is made and asked for its
\* first websocket, the broadcast is suspended in the send to it
BroadcastStart(s, message, conns, ok) ==
    [s EXCEPT !.pc = "broadcast", !.message = message, !.target = First(conns),
              !.used = Cardinality(conns),
              !.stale = IF ok THEN {} ELSE {First(conns)}]

\* chat_ws lines 101-130: a payload has come in; it is answered with an error,
\* or its message is appended to the history, which is trimmed, and the
\* broadcast starts
ChatReceive(c) ==
    /\ session[c].pc = "receive"
    /\ c \notin dropped
    /\ received < MaxPayloads
    /\ received' = received + 1
    /\ \E p \in ChatPayloads :
          IF PayloadError(p) # ""
          THEN /\ inbox' = Deliver(inbox, c, ErrorReply(PayloadError(p)), TRUE)
               /\ session' = session
               /\ UNCHANGED << chat_history, accepted >>
          ELSE /\ chat_history' = AppendAndTrim(chat_history, ChatMessage(p, accepted + 1))
               /\ accepted' = accepted + 1
               /\ session' = [session EXCEPT ![c] =
                                BroadcastStart(@, ChatMessage(p, accepted + 1),
                                               chat_connections,
                                               SendSucceeds(First(chat_connections)))]
               /\ inbox' = Deliver(inbox, First(chat_connections),
                                   ChatMessage(p, accepted + 1),
                                   SendSucceeds(First(chat_connections)))
    /\ UNCHANGED << chat_connections, dropped >>
    /\ UNCHANGED audio_vars
    /\ UNCHANGED video_vars

\* _broadcast_chat lines 41-47 and chat_ws lines 130-135: the send to the
\* target is over and the set iterator is asked for the next websocket. It
\* raises RuntimeError when the size of chat_connections is not what it was
\* when the iterator was made, which ends the session through line 133.
\* Otherwise it delivers the next websocket of the table, the message is sent
\* to it and a failure noted in stale; or the loop is over: the stale
\* websockets are discarded and the session waits for the next payload.
BroadcastSend(c) ==
    LET s == session[c]
        left == Behind(chat_connections, s.target)
    IN  /\ s.pc = "broadcast"
        /\ IF Cardinality(chat_connections) # s.used
           THEN /\ chat_connections' = chat_connections \ {c}
                /\ session' = [session EXCEPT ![c] = SessionAt("crashed")]
                /\ dropped' = dropped \ {c}
                /\ inbox' = inbox
           ELSE IF left # {}
           THEN /\ session' = [session EXCEPT ![c] =
                                 [s EXCEPT !.target = First(left),
                                           !.stale = IF SendSucceeds(First(left)) THEN @
                                                     ELSE @ \cup {First(left)}]]
                /\ inbox' = Deliver(inbox, First(left), s.message, SendSucceeds(First(left)))
                /\ UNCHANGED << chat_connections, dropped >>
           ELSE /\ session' = [session EXCEPT ![c] = SessionAt("receive")]
                /\ chat_connections' = chat_connections \ s.stale
                /\ UNCHANGED << dropped, inbox >>
        /\ UNCHANGED << chat_history, accepted, received >>
        /\ UNCHANGED audio_vars
        /\ UNCHANGED video_vars

\* the websockets whose peer may go away
Leavers == {3}

\* the peer of a websocket goes away
ClientDrop(c) ==
    /\ c \in Leavers
    /\ session[c].pc \in {"replay", "receive", "broadcast"}
    /\ c \notin dropped
    /\ dropped' = dropped \cup {c}
    /\ UNCHANGED << chat_history, chat_connections, accepted, session, inbox, received >>
    /\ UNCHANGED audio_vars
    /\ UNCHANGED video_vars

\* chat_ws lines 101, 131-132: receive_json raises WebSocketDisconnect
ChatDisconnect(c) ==
    /\ session[c].pc = "receive"
    /\ c \in dropped
    /\ chat_connections' = chat_connections \ {c}
    /\ session' = [session EXCEPT ![c] = SessionAt("closed")]
    /\ dropped' = dropped \ {c}
    /\ UNCHANGED << chat_history, accepted, inbox, received >>
    /\ UNCHANGED audio_vars
    /\ UNCHANGED video_vars

ChatNext ==
    \/ \E c \in Clients : ChatConnect(c)
    \/ \E c \in Clients : ChatReplay(c)
    \/ \E c \in Clients : ChatReceive(c)
    \/ \E c \in Clients : BroadcastSend(c)
    \/ \E c \in Clients : ClientDrop(c)
    \/ \E c \in Clients : ChatDisconnect(c)

vars == << audio_vars, video_vars, chat_vars >>

\* the audio codec: one embed_audio call, the carrier handed on, one extract_audio call
AudioStart == AudioInit /\ VideoOff /\ ChatOff

SpecAudio == AudioStart /\ [][AudioNext]_vars

\* the video codec and its handlers
VideoStart == VideoInit /\ AudioOff /\ ChatOff

SpecVideo == VideoStart /\ [][VideoNext]_vars

\* the chat
ChatStart == ChatInit /\ AudioOff /\ VideoOff

SpecChat == ChatStart /\ [][ChatNext]_vars

\* ------------------------------------------------------------------------
\* Properties of the audio codec
\* ------------------------------------------------------------------------
ExtractDone == a_pc = "x_done"

\* extract_audio was given the returned carrier as it was returned
Untouched == flipped = {} /\ stego = e_result.data

\* the extract call was given the password and encrypt flag of the embed call
SameCall == x_call = [password |-> password, encrypt |-> encrypt]

\* C1: audio round-trip. Whenever embed_audio has succeeded on a carrier and
\* extract_audio has been run on the untouched result with the same password
\* and encrypt flag, it returns exactly the payload that was embedded, for
\* every payload, password, encrypt and use_ecc value.
AudioRoundTrip ==
    (ExtractDone /\ Untouched /\ SameCall) => x_result = Success(payload)

AudioRoundTripWitness ==
    /\ ExtractDone /\ Untouched /\ SameCall
    /\ encrypt /\ use_ecc /\ Len(payload) >= 2
    /\ x_result = Success(payload)

PastCheck == a_pc \notin {"e_parse", "e_build", "e_check"} /\ full # <<>>

\* C3: audio capacity boundary. With total_bits = len(full)*8 and
\* samples = data_size div 2: once the capacity check has run, embed_audio has
\* failed with the capacity error exactly when total_bits > samples; so an
\* exact fit is not rejected (and ends in a returned carrier) and one bit over
\* is; and when the capacity error is raised no copy exists, no sample has been
\* written and no bytes are returned.
AudioCapacityBoundary ==
    /\ PastCheck =>
          /\ (e_result = Failure(ErrCapacity)) <=> (Len(full) * 8 > data_size \div 2)
          /\ Len(full) * 8 = data_size \div 2 => e_result.status # "error"
          /\ Len(full) * 8 = (data_size \div 2) + 1 => e_result = Failure(ErrCapacity)
    /\ e_result.error = ErrCapacity =>
          /\ wav = <<>> /\ bit_index = 0 /\ e_result.data = <<>>
          /\ a_pc = "e_raised"
    /\ a_pc = "e_write" => Len(full) * 8 <= data_size \div 2

AudioCapacityBoundaryWitness ==
    /\ a_pc = "e_returned"
    /\ Len(full) * 8 = data_size \div 2
    /\ payload # <<>>
    /\ e_result.status = "ok"

\* the magic was tampered with: some of the first 32 sample LSBs are flipped
MagicTampered == flipped # {} /\ flipped \subseteq 0..31

\* C4 as stated: whenever the embedded magic was changed, extract_audio fails
\* with "No payload found".
AudioTamperAlwaysNoPayload ==
    (ExtractDone /\ MagicTampered) => x_result = Failure(ErrNoPayload)

\* C4 as amended: whenever the embedded magic was changed, extract_audio
\* returns no bytes; it fails with "No payload found" if the call passes the
\* password check (encrypt false or a non-empty password), and with the
\* password error otherwise.
AudioTamperDetected ==
    (ExtractDone /\ MagicTampered) =>
        /\ x_result.status = "error" /\ x_result.data = <<>>
        /\ IF x_call.encrypt /\ x_call.password = <<>>
           THEN x_result = Failure(ErrPassword)
           ELSE x_result = Failure(ErrNoPayload)

AudioTamperDetectedWitness ==
    /\ ExtractDone /\ MagicTampered /\ SameCall
    /\ encrypt /\ payload # <<>>
    /\ x_result = Failure(ErrNoPayload)

\* the codeword of the body a flipped sample lies in
CodewordOf(i) == (i - 72) \div 7

\* every flipped sample lies in a body codeword, no two in the same one
OnePerCodeword ==
    /\ Len(stego) = Len(e_result.data)
    /\ flipped \subseteq 72..(71 + 7 * Codewords)
    /\ \A i, j \in flipped : i # j => CodewordOf(i) # CodewordOf(j)

FlipBit(w, k) == [w EXCEPT ![k] = 1 - w[k]]

\* C6: ECC correction. Every 4-bit block is recovered from its codeword with
\* any one of the 7 bits flipped (a fact about the code alone, evaluated once,
\* in the initial states); and on a carrier embedded with use_ecc, flipping the
\* LSB of at most one sample per body codeword still makes extract_audio (same
\* password and encrypt flag) return the payload.
EccCorrection ==
    /\ a_pc = "e_parse" =>
          \A block \in [1..4 -> {0, 1}] : \A k \in 1..7 :
              hamming_decode(FlipBit(hamming_encode(block), k)) = block
    /\ (ExtractDone /\ use_ecc /\ OnePerCodeword /\ SameCall) =>
          x_result = Success(payload)

EccCorrectionWitness ==
    /\ ExtractDone /\ use_ecc /\ OnePerCodeword /\ SameCall
    /\ Cardinality(flipped) = Codewords /\ Codewords >= 4
    /\ x_result = Success(payload)

\* C7: password requirement. With encrypt true and an empty password
\* embed_audio never gets past building the frame: it ends in an error, makes no
\* copy and returns no bytes, and extract_audio ends in an error with no bytes.
\* With encrypt false neither call ever raises the password error, the frame
\* that is embedded is the one any other password gives and carries the payload
\* itself, and what extract_audio returns is what it returns for any password.
AudioPasswordRequirement ==
    /\ (encrypt /\ password = <<>>) =>
          /\ a_pc \in {"e_parse", "e_build", "e_raised"}
          /\ wav = <<>> /\ e_result.status # "ok" /\ e_result.data = <<>>
          /\ a_pc = "e_raised" => e_result.status = "error"
    /\ (ExtractDone /\ x_call.encrypt /\ x_call.password = <<>>) =>
          x_result.status = "error" /\ x_result.data = <<>>
    /\ ~encrypt =>
          /\ e_result.error # ErrPassword
          /\ a_pc = "e_check" =>
                \A pw \in Passwords : full = Full(payload, pw, FALSE, use_ecc)
          /\ (PastCheck /\ ~use_ecc) => SubSeq(full, 10, Len(full)) = payload
    /\ (ExtractDone /\ ~x_call.encrypt) =>
          /\ x_result.error # ErrPassword
          /\ \A pw \in Passwords : x_result = extract_audio(stego, pw, FALSE)
          /\ (~encrypt /\ Untouched) => x_result = Success(payload)

AudioPasswordRequirementWitness ==
    /\ ExtractDone /\ ~encrypt /\ password = <<>>
    /\ ~x_call.encrypt /\ x_call.password = <<>>
    /\ payload # <<>> /\ Untouched
    /\ x_result = Success(payload)

\* C8: no partial results in embed_audio. The caller's buffer holds the bytes
\* of the carrier in every state; a copy exists only while the write loop runs,
\* that is after the WAV, password and capacity checks have passed; and when
\* the call has raised, no bytes are returned.
AudioEmbedNoPartialResult ==
    /\ wav_bytes = Carrier(carrier)
    /\ wav # <<>> => a_pc = "e_write"
    /\ a_pc = "e_raised" =>
          /\ e_result.status = "error" /\ e_result.data = <<>>
          /\ e_result.error \in {ErrWav, ErrPassword, ErrCapacity}
          /\ bit_index = 0
    /\ e_result.data # <<>> => e_result.status = "ok"

AudioEmbedNoPartialResultWitness ==
    /\ a_pc = "e_returned"
    /\ e_result.status = "ok"
    /\ e_result.data # wav_bytes
    /\ wav_bytes = Carrier(carrier)

\* ------------------------------------------------------------------------
\* Properties of the video codec and its handlers
\* ------------------------------------------------------------------------
VExtractDone == v_pc = "x_done"

\* extract_video was given the returned video whole: within the size limit,
\* readable, every frame kept, no sample changed
StegoPreserved ==
    /\ x_file.len <= MAX_VIDEO_BYTES
    /\ x_file.opens
    /\ x_file.kept >= Len(written)
    /\ x_file.flip = -1
    /\ ~x_file.wiped

\* the secret embed_video was given, as extract_video reports a secret: the
\* file (with "secret.bin" for a missing or empty name) when a file was given,
\* the text otherwise
EmbeddedSecret ==
    IF secret_file # None
    THEN XReturn(None, secret_file, OrElse(secret_filename, StrSecretBin))
    ELSE XReturn(secret_message, None, None)

\* C2: when embed_video has returned a video and extract_video is applied to
\* that video, every frame preserved, with the password of the embedding, it
\* returns the embedded secret: (text, None, None) for a text, (None, file
\* bytes, filename) for a file, the filename being "secret.bin" where none was
\* given.
VideoRoundTrip ==
    (VExtractDone /\ StegoPreserved /\ x_password = v_password)
        => vx_result = EmbeddedSecret

\* C2 witness: a text with characters JSON escapes came back, and so did a file
\* embedded under its own name, over frames counted by the fallback pass or not
VideoRoundTripWitness ==
    /\ VExtractDone
    /\ StegoPreserved
    /\ x_password = v_password
    /\ vx_result = EmbeddedSecret
    /\ \/ secret_file = None /\ secret_message = <<34, 92>>
       \/ secret_file = <<255, 0>> /\ secret_filename = <<102>>

\* C5: extract_video with a password other than the one of the embedding never
\* returns the embedded secret.
VideoWrongPasswordNeverOriginal ==
    (VExtractDone /\ x_password # v_password) => vx_result # EmbeddedSecret

\* C9: a request to a video handler ends in a result or in a VideoStegoError
\* mapped to a 400 answer; nothing else escapes the handler.
VideoHandlersFailOnlyWithVideoError ==
    v_pc = "responded" => h_result.kind # "escaped"

\* C10: a payload object of type "file" that embed_video serializes has a
\* non-empty filename and non-empty data.
FilePayloadInvariant ==
    (v_pc \notin {"call", "raised", "request", "responded", "off"}
     /\ payload_obj # <<>>
     /\ DictGet(payload_obj, KeyType) = StrFile)
        => /\ DictGet(payload_obj, KeyFilename) # <<>>
           /\ DictGet(payload_obj, KeyFilename) # None
           /\ DictGet(payload_obj, KeyData) # <<>>
           /\ DictGet(payload_obj, KeyData) # None

\* the number of calls of one transcoder step in the log
Calls(step) == Cardinality({i \in 1..Len(ffmpeg_log) : ffmpeg_log[i] = step})

\* the container name embed_video is asked for, lower-cased, "mp4" when it is
\* empty or not alphanumeric
RequestedExtension ==
    LET lower == [i \in 1..Len(container_arg) |->
                     IF container_arg[i] \in 65..90 THEN container_arg[i] + 32
                     ELSE container_arg[i]]
    IN  IF lower = <<>>
           \/ \E i \in 1..Len(lower) :
                 lower[i] \notin (48..57) \cup (97..122)
        THEN <<109, 112, 52>> ELSE lower

\* C11: in a call of embed_video each transcoder step runs at most once; a
\* failed scale ends the call with "Failed to downscale video" and no output; a
\* failed remux is no error: the call returns the frames written, without
\* audio, as "mp4"; a successful remux returns them with the sanitized
\* requested container as extension.
TranscoderPolicy ==
    /\ Calls("scale") <= 1
    /\ Calls("remux") <= 1
    /\ (v_pc = "raised" /\ ffmpeg_log = <<"scale">>)
          => (v_result.error \in {VErrScale, VErrOpen, VErrDims, VErrReopen,
                                  VErrCapacity, VErrWriter, VErrFrames}
              /\ written = <<>>)
    /\ v_result = VFailure(VErrScale) => (ffmpeg_log = <<"scale">> /\ written = <<>>)
    /\ v_pc \in {"open", "build", "count", "capacity", "writer", "frames", "remux"}
          => ffmpeg_log = <<"scale">>
    /\ Calls("remux") = 1 => v_result.status = "ok"
    /\ v_result.status = "ok" =>
          /\ ffmpeg_log = <<"scale", "remux">>
          /\ Len(written) = video.frames
          /\ v_bit_index = Len(full_payload) * 8
          /\ IF v_result.audio THEN v_result.ext = RequestedExtension
             ELSE v_result.ext = <<109, 112, 52>>

\* C11 witness: a remux that failed after every bit was embedded, the call
\* returning the video without audio as "mp4" although "mkv" was asked for
TranscoderPolicyWitness ==
    /\ v_result.status = "ok"
    /\ ~v_result.audio
    /\ v_result.ext = <<109, 112, 52>>
    /\ container_arg = <<77, 75, 86>>
    /\ written # <<>>

\* total_bits_needed of the call under way
TotalBitsNeeded == Len(full_payload) * 8

\* embed_video has built its payload and settled frame_count
PastCapacityCheck ==
    v_pc \in {"writer", "frames", "remux", "returned", "x_frames", "x_decode", "x_done"}

\* C12: embed_video raises the capacity error, with no frame written, when
\* total_bits_needed > frame_count * width * height * 3, and goes on past the
\* check when it is at most that; a call that returns has embedded every bit
\* (the cursor equals total_bits_needed, which it never exceeds), also when
\* the video has fewer readable frames than the count used for the capacity.
VideoCapacity ==
    /\ v_result = VFailure(VErrCapacity) =>
          /\ TotalBitsNeeded > frame_count * width * height * 3
          /\ written = <<>>
          /\ v_bit_index = 0
    /\ (v_pc = "raised" /\ full_payload # <<>>
        /\ TotalBitsNeeded > frame_count * width * height * 3)
          => v_result.error \in {VErrCapacity, VErrReopen}
    /\ PastCapacityCheck => TotalBitsNeeded <= frame_count * width * height * 3
    /\ v_bit_index <= TotalBitsNeeded
    /\ v_result.status = "ok" => v_bit_index = TotalBitsNeeded
    /\ (v_pc = "raised" /\ v_result.error = VErrFrames) =>
          /\ video.frames < frame_count
          /\ video.frames * width * height * 3 < TotalBitsNeeded

\* C12 witness: the payload fills the capacity to the last bit and the call
\* returns with the cursor at total_bits_needed
VideoCapacityWitness ==
    /\ v_result.status = "ok"
    /\ TotalBitsNeeded = frame_count * width * height * 3
    /\ v_bit_index = TotalBitsNeeded

\* ------------------------------------------------------------------------
\* Properties of the audio frame layout
\* ------------------------------------------------------------------------
\* embed_audio has built the frame of the call under way
FrameBuilt == a_pc \notin {"off", "e_parse", "e_build", "e_raised"} /\ full # <<>>

\* the encrypted payload of the call under way
EncryptedPayload == Encrypted(payload, password, encrypt)

\* the 9 header bytes as plain bytes
PlainHeader ==
    MAGIC \o <<IF use_ecc THEN 1 ELSE 0>> \o ToBE4(Len(EncryptedPayload))

\* C13 as stated: with use_ecc the whole bit sequence, header included, is
\* Hamming-encoded.
EccCoversHeader ==
    (FrameBuilt /\ use_ecc) =>
        full = bits_to_bytes(hamming_encode(bytes_to_bits(PlainHeader \o EncryptedPayload)))

\* C13 as amended: with use_ecc only the body is Hamming-encoded. The frame
\* starts with the 9 header bytes as plain bytes, the codewords of the
\* encrypted payload follow, and one flipped magic bit makes extract_audio
\* fail: the header is not protected.
EccCoversBodyOnly ==
    /\ (FrameBuilt /\ use_ecc) =>
          /\ SubSeq(full, 1, 9) = PlainHeader
          /\ SubSeq(full, 10, Len(full))
               = bits_to_bytes(hamming_encode(bytes_to_bits(EncryptedPayload)))
    /\ (ExtractDone /\ use_ecc /\ \E k \in 0..31 : flipped = {k})
          => x_result.status = "error"

\* C13 witness: a carrier embedded with use_ecc, one magic bit flipped, the
\* same password and flag: extract_audio finds no payload
EccCoversBodyOnlyWitness ==
    /\ ExtractDone
    /\ use_ecc
    /\ SameCall
    /\ payload # <<>>
    /\ flipped = {7}
    /\ SubSeq(full, 1, 9) = PlainHeader
    /\ x_result = Failure(ErrNoPayload)

\* sample bits the frame of an N-byte encrypted payload occupies when the ECC
\* body takes exactly ceil(N*8/4)*7 bits after the 72 header bits
EccFrameBits(n) == 72 + ((n * 8 + 3) \div 4) * 7

\* C14: for an encrypted payload of N bytes embedded with ECC, embed_audio
\* demands and overwrites exactly 72 + ceil(N*8/4)*7 sample bits, never more,
\* and the length field holds N.
EccBodySize ==
    /\ (FrameBuilt /\ use_ecc) =>
          /\ Len(full) * 8 = EccFrameBits(Len(EncryptedPayload))
          /\ FromBE4(SubSeq(full, 6, 9)) = Len(EncryptedPayload)
    /\ (a_pc = "e_returned" /\ use_ecc) =>
          bit_index = EccFrameBits(Len(EncryptedPayload))
    /\ (e_result = Failure(ErrCapacity) /\ use_ecc) =>
          EccFrameBits(Len(EncryptedPayload)) > data_size \div 2

\* byte p (0-based) of the file is the low byte of one of the first n samples
LowByteOfSample(p, n) ==
    /\ p >= data_offset
    /\ (p - data_offset) % 2 = 0
    /\ (p - data_offset) \div 2 < n

\* C15: the output of a successful embed_audio is as long as the input and
\* differs from it at most in bit 0 of the bytes at data_offset + 2*i for
\* 0 <= i < total_bits; bits 1..7 of these bytes and every other byte (upper
\* bytes of samples, data beyond the frame, bytes outside the data region)
\* are unchanged.
AudioEmbedFrame ==
    a_pc = "e_returned" =>
        /\ Len(e_result.data) = Len(wav_bytes)
        /\ \A j \in 1..Len(wav_bytes) :
              IF LowByteOfSample(j - 1, Len(full) * 8)
              THEN e_result.data[j] \div 2 = wav_bytes[j] \div 2
              ELSE e_result.data[j] = wav_bytes[j]

\* C15 witness: a returned carrier with samples beyond the frame, in which a
\* low byte of the frame changed
AudioEmbedFrameWitness ==
    /\ a_pc = "e_returned"
    /\ Len(full) * 8 < data_size \div 2
    /\ Len(e_result.data) = Len(wav_bytes)
    /\ \E j \in 1..Len(wav_bytes) :
          /\ LowByteOfSample(j - 1, Len(full) * 8)
          /\ e_result.data[j] # wav_bytes[j]

\* ------------------------------------------------------------------------
\* Properties of extract_audio on short carriers
\* ------------------------------------------------------------------------
\* sample bits the carrier given to extract_audio has
StegoSamples == parse_wav(stego).size \div 2

\* LSB of sample i (0-based) of the carrier given to extract_audio
StegoLsb(i) == stego[parse_wav(stego).offset + 2 * i + 1] % 2

\* the number spelt MSB-first by the LSBs of samples from .. from + n - 1
StegoField(from, n) ==
    LET val[k \in 0..n] ==
            IF k = 0 THEN 0 ELSE 2 * val[k - 1] + StegoLsb(from + k - 1)
    IN  val[n]

\* the first 32 LSBs of the carrier spell STG1
StegoMagicIntact ==
    \A b \in 0..3 : StegoField(8 * b, 8) = MAGIC[b + 1]

\* the body bits the carrier declares: from its flag (bit 0 of the flag byte)
\* and its length field
DeclaredLength == StegoField(40, 32)
DeclaredBodyBits ==
    IF StegoField(32, 8) % 2 = 1 THEN ((DeclaredLength * 8 + 3) \div 4) * 7
    ELSE DeclaredLength * 8

\* the carrier has fewer sample bits than the header and the declared body need
StegoTooShort ==
    StegoSamples < 72 \/ StegoSamples < 72 + DeclaredBodyBits

\* the extract call passes the password check of _ensure_audio
XPasswordGiven == ~(x_call.encrypt /\ x_call.password = <<>>)

\* C16 as stated: on a carrier with fewer sample bits than the 72 header bits
\* plus the declared body bits, extract_audio fails with the truncation error
\* and with no other failure; a returned result has the declared length.
AudioTruncationAlways ==
    ExtractDone =>
        /\ StegoTooShort => x_result = Failure(ErrTruncated)
        /\ x_result.status = "ok" => Len(x_result.data) = DeclaredLength

\* C16 as amended: on such a carrier extract_audio never returns bytes; it
\* fails with the truncation error when the call passes the password check
\* and the carrier has fewer than 32 sample bits or an intact magic, with the
\* password error when encrypt is true and the password empty, and with "No
\* payload found" when the 32 magic bits are there and do not spell STG1. A
\* returned result has exactly the declared length.
AudioTruncation ==
    ExtractDone =>
        /\ StegoTooShort =>
              /\ x_result.status = "error" /\ x_result.data = <<>>
              /\ x_result =
                    IF ~XPasswordGiven THEN Failure(ErrPassword)
                    ELSE IF StegoSamples < 32 THEN Failure(ErrTruncated)
                    ELSE IF ~StegoMagicIntact THEN Failure(ErrNoPayload)
                    ELSE Failure(ErrTruncated)
        /\ x_result.status = "ok" =>
              /\ Len(x_result.data) = DeclaredLength
              /\ StegoSamples >= 72 + DeclaredBodyBits

\* C16 witness: the length field of an exact-fit carrier was raised by one
\* flipped bit, so the declared body ends beyond the carrier, and the
\* truncation error is raised
AudioTruncationWitness ==
    /\ ExtractDone
    /\ flipped = {71}
    /\ StegoSamples >= 72
    /\ StegoSamples < 72 + DeclaredBodyBits
    /\ XPasswordGiven
    /\ x_result = Failure(ErrTruncated)

\* ------------------------------------------------------------------------
\* Properties of the frame loop of extract_video
\* ------------------------------------------------------------------------
\* samples per frame of the stego video
SamplesPerFrame == width * height * 3

\* the least number of frames that hold the first n samples
FramesFor(n) == (n + SamplesPerFrame - 1) \div SamplesPerFrame

\* the header the loop of extract_video has parsed and accepted
HeaderAccepted ==
    /\ scan.header_bits_collected = 64
    /\ SubSeq(scan.header_bytes, 1, 4) = <<86, 83, 84, 50>>
    /\ scan.payload_bits_expected = FromBE4(SubSeq(scan.header_bytes, 5, 8)) * 8
    /\ scan.payload_bits_expected > 0

\* C17: extract_video parses the header once, when the 64th LSB is in: the
\* expected payload size is set exactly when 64 header bits are collected and
\* the magic is VST2; a magic other than VST2 ends the call with the magic
\* mismatch error after 64 samples, in the frame that holds the 64th, with no
\* payload bit collected; and no payload bit is collected before the header
\* is parsed and accepted.
VideoHeaderFirst ==
    /\ scan.header_bits_collected <= 64
    /\ scan.payload_bits_expected # -1 => HeaderAccepted
    /\ (scan.header_bits_collected = 64 /\ scan.error = "") => HeaderAccepted
    /\ (scan.payload_bits_collected > 0 \/ scan.payload_bytes # <<>>) => HeaderAccepted
    /\ scan.header_bits_collected < 64 => scan.inspected = scan.header_bits_collected
    /\ (scan.header_bits_collected = 64
        /\ SubSeq(scan.header_bytes, 1, 4) # <<86, 83, 84, 50>>) =>
          /\ vx_result = XFailure(XErrMagic)
          /\ scan.inspected = 64
          /\ scan.payload_bits_collected = 0
          /\ scan.payload_bytes = <<>>
          /\ x_pos = FramesFor(64)
          /\ v_pc = "x_done"
    /\ vx_result = XFailure(XErrMagic) =>
          (scan.header_bits_collected = 64
           /\ SubSeq(scan.header_bytes, 1, 4) # <<86, 83, 84, 50>>)

\* C17 witness: the first magic bit of a stego video was flipped and the call
\* ended with the magic mismatch error in the second frame, frames left unread
VideoHeaderFirstWitness ==
    /\ vx_result = XFailure(XErrMagic)
    /\ x_file.flip = 0
    /\ scan.inspected = 64
    /\ x_pos = 2
    /\ x_pos < Len(written)
    /\ scan.payload_bytes = <<>>

\* C18: once the header is accepted extract_video collects exactly length*8
\* payload bits and stops there: it has then inspected 64 + length*8 samples,
\* none after the last payload bit, and has read
\* ceil((64 + length*8) / (width*height*3)) frames, however many the video has.
VideoEarlyExit ==
    /\ scan.payload_bits_expected # -1 =>
          /\ scan.payload_bits_collected <= scan.payload_bits_expected
          /\ scan.inspected = 64 + scan.payload_bits_collected
          /\ Len(scan.payload_bytes) = (scan.payload_bits_collected + 7) \div 8
          /\ scan.done <=> scan.payload_bits_collected = scan.payload_bits_expected
    /\ scan.done =>
          /\ v_pc \in {"x_decode", "x_done"}
          /\ scan.inspected = 64 + FromBE4(SubSeq(scan.header_bytes, 5, 8)) * 8
          /\ x_pos = FramesFor(64 + FromBE4(SubSeq(scan.header_bytes, 5, 8)) * 8)
    /\ (v_pc = "x_frames" /\ scan.payload_bits_expected # -1) =>
          scan.inspected = x_pos * SamplesPerFrame

\* C18 witness: the payload ended in the middle of a frame of a video with
\* frames to spare, and the loop stopped there
VideoEarlyExitWitness ==
    /\ scan.done
    /\ scan.inspected % SamplesPerFrame # 0
    /\ x_pos < Len(written)
    /\ x_file.kept >= Len(written)
    /\ x_pos = FramesFor(scan.inspected)

\* the frame stream of the stego file ended before the loop was done
StreamEnded == v_pc = "x_done" /\ ~scan.done /\ scan.error = "" /\ x_pos >= StegoFrames

\* C19: when the frame stream ends before 64 header bits are collected, or
\* after an accepted header and before length*8 payload bits are collected,
\* extract_video raises an error (incomplete header in the first case, ended
\* before the payload was read in the second) and returns no text and no
\* file; a result is returned only for a payload collected in full.
VideoTruncation ==
    /\ (StreamEnded /\ x_pos > 0 /\ scan.header_bits_collected < 64)
          => vx_result = XFailure(XErrHeader)
    /\ (StreamEnded /\ HeaderAccepted
        /\ scan.payload_bits_collected < scan.payload_bits_expected)
          => vx_result = XFailure(XErrEnded)
    /\ (StreamEnded /\ x_pos > 0) =>
          /\ vx_result.status = "error"
          /\ vx_result.text = None /\ vx_result.file = None
          /\ vx_result.filename = None
    /\ vx_result.status = "ok" =>
          /\ scan.done
          /\ scan.payload_bits_collected = scan.payload_bits_expected
          /\ Len(scan.payload_bytes) * 8 = scan.payload_bits_expected

\* C19 witness: a stego video cut after its second frame: the header is
\* there, the payload is not, and the call fails with the ended-early error,
\* some payload bits collected
VideoTruncationWitness ==
    /\ StreamEnded
    /\ x_file.kept = 2
    /\ HeaderAccepted
    /\ scan.payload_bits_collected > 0
    /\ scan.payload_bits_collected < scan.payload_bits_expected
    /\ vx_result = XFailure(XErrEnded)

\* ------------------------------------------------------------------------
\* Properties of the bit placement in video frames
\* ------------------------------------------------------------------------
\* bit k of the framed payload, the bits of each byte taken MSB-first
FramedBit(k) == (full_payload[(k \div 8) + 1] \div (2 ^ (7 - (k % 8)))) % 2

\* the bytes extract_video has collected, header first
Collected == scan.header_bytes \o scan.payload_bytes

\* C20: with S = width*height*3, embed_video writes bit k of header+payload,
\* MSB-first within each byte, into the LSB of sample k mod S of frame k div S,
\* for every k below total_bits, and changes nothing else; after f frames the
\* cursor stands at min(f*S, total_bits), no bit skipped or repeated; and
\* extract_video rebuilds each byte from 8 consecutive LSBs in that order, so
\* the bytes it has collected from an unchanged video are those embedded.
VideoBitPlacement ==
    /\ v_pc \in {"frames", "remux"} =>
          /\ v_bit_index =
                IF Len(written) * SamplesPerFrame < TotalBitsNeeded
                THEN Len(written) * SamplesPerFrame ELSE TotalBitsNeeded
          /\ \A f \in 1..Len(written) :
                /\ Len(written[f]) = SamplesPerFrame
                /\ \A i \in 1..SamplesPerFrame :
                      LET k == (f - 1) * SamplesPerFrame + i - 1
                      IN  /\ written[f][i] \div 2 = FrameSample(f - 1, i - 1) \div 2
                          /\ written[f][i] % 2 =
                                IF k < TotalBitsNeeded THEN FramedBit(k)
                                ELSE FrameSample(f - 1, i - 1) % 2
    /\ (v_pc \in {"x_frames", "x_decode"} /\ x_file.flip = -1 /\ ~x_file.wiped
        /\ scan.error = "") =>
          /\ \A j \in 1..(scan.inspected \div 8) : Collected[j] = full_payload[j]
          /\ scan.inspected % 8 # 0 =>
                Collected[(scan.inspected \div 8) + 1]
                    = full_payload[(scan.inspected \div 8) + 1]
                        \div (2 ^ (8 - (scan.inspected % 8)))

\* C20 witness: a payload that needs more than one frame and ends inside a
\* frame is embedded in full, frames to spare, and the last of its bits is
\* where the rule puts it
VideoBitPlacementWitness ==
    /\ v_pc = "remux"
    /\ TotalBitsNeeded > SamplesPerFrame
    /\ TotalBitsNeeded % SamplesPerFrame # 0
    /\ v_bit_index = TotalBitsNeeded
    /\ Len(written) > FramesFor(TotalBitsNeeded)
    /\ written[FramesFor(TotalBitsNeeded)][((TotalBitsNeeded - 1) % SamplesPerFrame) + 1] % 2
          = FramedBit(TotalBitsNeeded - 1)

\* ------------------------------------------------------------------------
\* Properties of the armoring of the video payload
\* ------------------------------------------------------------------------
\* the bytes of the framed payload after its 8-byte header
WireBody == SubSeq(full_payload, HEADER_SIZE + 1, Len(full_payload))

\* the LENGTH field of the framed payload
WireLength == FromBE4(SubSeq(full_payload, 5, 8))

\* C21 as stated: embed_video base64-armors the serialized payload before
\* XOR-encrypting it, so the bytes after the header are the encryption of the
\* armor, and LENGTH is their count.
VideoArmorBeforeEncrypt ==
    PastCapacityCheck =>
        /\ WireBody = xor_encrypt(b64encode(json_dumps(payload_obj)), v_password)
        /\ WireLength = Len(WireBody)

\* C21 amended: embed_video XOR-encrypts the serialized payload and then
\* base64-armors the ciphertext, so the bytes after the header are base64
\* text; the 4-byte big-endian LENGTH in the VST2 header is the count of the
\* bytes written after the header; extract_video undoes the two in the
\* reverse order, base64 first.
VideoArmorAfterEncrypt ==
    /\ v_pc \in {"writer", "remux", "returned"} =>
          /\ WireBody = b64encode(xor_encrypt(json_dumps(payload_obj), v_password))
          /\ \A i \in 1..Len(WireBody) : B64Value(WireBody[i]) >= 0 \/ WireBody[i] = 61
          /\ SubSeq(full_payload, 1, 4) = VMAGIC
          /\ WireLength = Len(WireBody)
          /\ WireLength = Len(full_payload) - HEADER_SIZE
    /\ (v_pc = "x_done" /\ scan.done /\ scan.error = "") =>
          LET unarmored == b64decode(scan.payload_bytes)
              parsed == json_loads(xor_decrypt(unarmored.data, x_password))
          IN  /\ ~unarmored.ok => vx_result = XFailure(XErrDecode)
              /\ (unarmored.ok /\ parsed.kind = "dict") => vx_result = DecodeDict(parsed.obj)

\* C21 witness: a payload was framed under a non-empty password that changes
\* its bytes, and the frame was embedded and read back in full
VideoArmorWitness ==
    /\ v_pc = "x_done"
    /\ scan.done /\ scan.error = ""
    /\ v_password # <<>>
    /\ xor_encrypt(json_dumps(payload_obj), v_password) # json_dumps(payload_obj)
    /\ scan.payload_bytes = WireBody
    /\ vx_result.status = "ok"

\* ------------------------------------------------------------------------
\* Properties of the frames embed_video writes
\* ------------------------------------------------------------------------
\* written frame f (1-based) against the frame read for it: the upper seven
\* bits of every sample kept, and every sample from the first one past the
\* payload bits kept whole
FrameKept(f) ==
    LET source == SourceFrame(video, f - 1)
    IN  /\ Len(written[f]) = Len(source)
        /\ \A i \in 1..Len(source) :
              /\ written[f][i] \div 2 = source[i] \div 2
              /\ (f - 1) * Len(source) + i > TotalBitsNeeded => written[f][i] = source[i]

\* C22: embed_video writes every frame it reads, once and in order, so the
\* output has as many frames as were read; bits 1..7 of every channel sample
\* are unchanged, only the LSBs of the first total_bits samples in
\* frame/raster order may change, and every sample after the last payload
\* bit, all later frames included, is written unmodified.
VideoEmbedFrame ==
    /\ v_pc = "frames" =>
          /\ Len(written) = cap_pos
          /\ written # <<>> => FrameKept(Len(written))
    /\ v_pc = "remux" =>
          /\ Len(written) = cap_pos
          /\ Len(written) = video.frames
          /\ \A f \in 1..Len(written) :
                /\ FrameKept(f)
                /\ f > FramesFor(TotalBitsNeeded) => written[f] = SourceFrame(video, f - 1)

\* C22 witness: every frame of a video was read and written, the first with
\* payload bits in it that changed a sample, the last one past the payload
VideoEmbedFrameWitness ==
    /\ v_pc = "remux"
    /\ Len(written) = video.frames
    /\ Len(written) > FramesFor(TotalBitsNeeded)
    /\ written[1] # SourceFrame(video, 0)
    /\ written[Len(written)] = SourceFrame(video, Len(written) - 1)

\* ------------------------------------------------------------------------
\* Properties of the frame buffers
\* ------------------------------------------------------------------------
\* C23 as stated: in embed_video (its frame-counting pass included) and in
\* extract_video at most one decoded frame is held at any time: each frame is
\* released before the next one is read, so that right after a read the frame
\* just read is the only one alive.
StreamingOneFrame == refs.at_read <= 1

\* ------------------------------------------------------------------------
\* Properties of the length field of the video header
\* ------------------------------------------------------------------------
\* the 8 header bytes are in, with the VST2 magic and a LENGTH of 0
ZeroLengthHeader ==
    /\ scan.header_bits_collected = HEADER_SIZE * 8
    /\ SubSeq(scan.header_bytes, 1, 4) = VMAGIC
    /\ FromBE4(SubSeq(scan.header_bytes, 5, 8)) = 0

\* C24: when the collected 8-byte header carries the VST2 magic but a LENGTH
\* of 0, extract_video fails with the invalid-length error at header-parse
\* time (the 64th sample, no payload bit collected, no frame read after the
\* one that completes the header) instead of returning an empty payload; no
\* carrier produced by embed_video has LENGTH 0.
VideoZeroLength ==
    /\ (v_pc \in {"x_frames", "x_decode", "x_done"} /\ ZeroLengthHeader) =>
          /\ v_pc = "x_done"
          /\ vx_result = XFailure(XErrLength)
          /\ scan.error = XErrLength
          /\ scan.inspected = HEADER_SIZE * 8
          /\ scan.payload_bytes = <<>> /\ scan.payload_bits_collected = 0
          /\ x_pos = FramesFor(HEADER_SIZE * 8)
    /\ v_pc \in {"capacity", "writer", "frames", "remux", "returned"} =>
          /\ SubSeq(full_payload, 1, 4) = VMAGIC
          /\ FromBE4(SubSeq(full_payload, 5, 8)) > 0
          /\ Len(full_payload) > HEADER_SIZE

\* C24 witness: the length field of a returned video was cleared, the magic
\* left alone, and extract_video has failed on it with the invalid-length
\* error
VideoZeroLengthWitness ==
    /\ v_pc = "x_done"
    /\ x_file.wiped
    /\ ZeroLengthHeader
    /\ FromBE4(SubSeq(full_payload, 5, 8)) > 0
    /\ vx_result = XFailure(XErrLength)

\* ------------------------------------------------------------------------
\* Properties of the chat
\* ------------------------------------------------------------------------
\* a payload as the rule describes the rejected ones: not a dict, or without
\* a ciphertext that is a string with a non-blank character, or without such
\* a cover
StatedInvalid(p) ==
    \/ ~p.is_dict
    \/ ~(IsStr(p.ciphertext) /\ \E i \in 1..Len(p.ciphertext) : ~IsSpace(p.ciphertext[i]))
    \/ ~(IsStr(p.cover) /\ \E i \in 1..Len(p.cover) : ~IsSpace(p.cover[i]))

\* a chat message made from a payload that is not one of the rejected ones
FromValidPayload(m) ==
    /\ m.type = "chat"
    /\ IsStr(m.ciphertext) /\ Strip(m.ciphertext) # <<>>
    /\ IsStr(m.cover) /\ m.cover # <<>>

\* the history is the last CHAT_HISTORY_LIMIT accepted messages, or all of
\* them while they are fewer, in the order of acceptance
HistoryIsLatest ==
    /\ Len(chat_history) <= CHAT_HISTORY_LIMIT
    /\ Len(chat_history) =
          IF accepted < CHAT_HISTORY_LIMIT THEN accepted ELSE CHAT_HISTORY_LIMIT
    /\ \A i \in 1..Len(chat_history) :
          /\ chat_history[i].id = accepted - Len(chat_history) + i
          /\ FromValidPayload(chat_history[i])
    /\ \A c \in Clients :
          /\ session[c].pc = "broadcast" => FromValidPayload(session[c].message)
          /\ \A i \in 1..Len(inbox[c]) :
                inbox[c][i].type = "chat" => FromValidPayload(inbox[c][i])
    /\ \A p \in ChatPayloads : StatedInvalid(p) <=> PayloadError(p) # ""

\* a step in which a payload comes in: it is accepted, and its message is the
\* new last entry of the history, the entries before it those of the history
\* before, the oldest one dropped if they were CHAT_HISTORY_LIMIT; or it is
\* one of the rejected ones and all that changes is the inbox of one
\* websocket, waiting for a payload, which gets an error reply
PayloadStep ==
    received' # received =>
        \/ /\ accepted' = accepted + 1
           /\ chat_history'[Len(chat_history')].id = accepted'
           /\ \A i \in 1..(Len(chat_history') - 1) :
                 chat_history'[i] = chat_history[Len(chat_history) - Len(chat_history') + 1 + i]
           /\ \A c \in Clients :
                 \/ inbox'[c] = inbox[c]
                 \/ inbox'[c] = Append(inbox[c], chat_history'[Len(chat_history')])
        \/ /\ accepted' = accepted
           /\ chat_history' = chat_history
           /\ chat_connections' = chat_connections
           /\ session' = session
           /\ \E c \in Clients, p \in ChatPayloads :
                 /\ session[c].pc = "receive"
                 /\ StatedInvalid(p)
                 /\ inbox' = [inbox EXCEPT
                                ![c] = Append(@, [type |-> "error",
                                                  message |-> PayloadError(p)])]

\* C25: after any sequence of accepted chat messages from any clients,
\* chat_history holds at most CHAT_HISTORY_LIMIT (50) entries, and they are
\* exactly the most recently accepted messages in acceptance order; a received
\* payload that is not a dict, or lacks a non-blank ciphertext or cover, is
\* answered with an error to its sender only, leaves chat_history unchanged
\* and is not broadcast.
ChatHistoryBound == []HistoryIsLatest /\ [][PayloadStep]_vars

\* C25 witness: more than CHAT_HISTORY_LIMIT messages were accepted, the
\* history holds the last CHAT_HISTORY_LIMIT of them, and a payload was
\* answered with an error
ChatHistoryBoundWitness ==
    /\ accepted > CHAT_HISTORY_LIMIT
    /\ Len(chat_history) = CHAT_HISTORY_LIMIT
    /\ chat_history[1].id = accepted - CHAT_HISTORY_LIMIT + 1
    /\ \E c \in Clients :
          /\ inbox[c] # <<>>
          /\ inbox[c][Len(inbox[c])].type = "error"

\* C26 as stated: while _broadcast_chat is suspended in a send, another client
\* connecting or disconnecting never makes the broadcast fail: the iteration
\* over chat_connections goes on to its end and the session of the sender is
\* not ended by an exception of the broadcast.
BroadcastNeverFails == \A c \in Clients : session[c].pc # "crashed"

\* the ids of the chat messages websocket c was sent, in the order sent
\* (error replies left out)
RECURSIVE ChatIds(_)
ChatIds(box) ==
    IF box = <<>> THEN <<>>
    ELSE IF Head(box).type = "chat" THEN << Head(box).id >> \o ChatIds(Tail(box))
    ELSE ChatIds(Tail(box))

\* C27 as stated: a newly connected chat client receives every message at
\* most once, and in acceptance order while its replay is going on, even when
\* other clients send messages during the replay: a message accepted during
\* the replay is not delivered twice, once by the broadcast and once by the
\* replay.
ReplayAtMostOnce ==
    \A c \in Clients :
        LET ids == ChatIds(inbox[c])
        IN  /\ \A i, j \in 1..Len(ids) : i # j => ids[i] # ids[j]
            /\ session[c].pc = "replay" =>
                  \A i \in 1..(Len(ids) - 1) : ids[i] < ids[i + 1]

====
